---- MODULE Spec2Model ----
(***************************************************************************)
(* Admission control of the image host: the token-bucket rate limiter      *)
(* (services/rate_limiter.rs), the rate-limit middleware                    *)
(* (middleware/rate_limit.rs), the usage counters and the upload quota     *)
(* check (services/quota_manager.rs, middleware/quota.rs); and the worker  *)
(* pool of the image processor (services/image_processor.rs).              *)
(*                                                                         *)
(* Time is in seconds.  `clock` is the true time, which is also the time   *)
(* of the Redis server that expires keys; a caller samples it with         *)
(* SystemTime::now() before its script runs.                               *)
(***************************************************************************)
EXTENDS Integers, Naturals, Sequences, FiniteSets, TLC

VARIABLES
    clock,      \* true time in seconds
    ticks,      \* number of clock advances taken so far
    redisUp,    \* TRUE while the Counter Store answers
    bucket,     \* Redis hash rate_limit:<key>:<window>, per window
    tomb,       \* per window: the hash as it was when its TTL removed it
    call,       \* per task: one check_rate_limit call in progress
    given,      \* the arguments of a caller's calls and the tokens it found
    hist,       \* the calls one caller has made so far: <<now, allowed>>
    limits,     \* ApiKeyLimits.rate_limits of the API key
    mw,         \* the request rate_limit_middleware is handling
    usage,      \* Redis key usage:<key>:<kind>, per counter kind
    wiped,      \* the counter kinds whose key was removed so far
    usage0,     \* the value every counter started from
    rec,        \* per task: one record_upload / record_download in progress
    qlimits,    \* the quota fields of the ApiKeyLimits of the API key
    images,     \* per image slot of the owner: orig_size_bytes, 0 for no row
    quota,      \* the check_upload_quota call in progress
    qmw,        \* the request quota_middleware is handling
    jobq,       \* the ProcessingJobs in the channel of the ImageProcessor
    job,        \* per job id: the ProcessingJob, in the channel or in a worker
    worker,     \* per worker_id: the position of its worker_loop
    plan,       \* per job id: the results of its successive process_job calls
    got,        \* per job id: how many times recv has returned it
    closed,     \* TRUE once job_sender is dropped
    upload,     \* per upload_image request: the job of its own ImageProcessor
    adm,        \* the request admin_rate_limit_middleware is handling
    session,    \* Redis key session:<id> of one session id
    sget,       \* per task: one get_session call in progress
    shist,      \* the last store_session: when, with which TTL, deleted since
    uq,         \* per task: the check_upload_quota call of its upload
    zkey,       \* the sorted set of RedisService::check_rate_limit for one key
    zcall,      \* per task: one RedisService::check_rate_limit call in progress
    zlog,       \* the calls answered so far: <<now, allowed>>
    zgiven,     \* the limit and the window in seconds of these calls
    pub,        \* the request public_rate_limit_middleware is handling
    pgiven,     \* the image and the sizes given to queue_processing_job
    pjob,       \* the ProcessingJob made by the last queue_processing_job
    prun,       \* the process_job call in progress
    pfiles,     \* the files under processed/: path and the run that wrote it
    preturned,  \* the variant URL lists returned by process_job so far
    lru,        \* the sorted set transform:lru: the score of each member, -1 for none
    tdata,      \* per cache key: the string transform:<cache_key> and its expiry
    recency     \* the cache keys of the index by last set or get, oldest first

procVars == <<pgiven, pjob, prun, pfiles, preturned>>
cacheVars == <<lru, tdata, recency>>
svcVars == <<session, sget, shist, uq, zkey, zcall, zlog, zgiven, pub, procVars, cacheVars>>
storeVars == <<clock, ticks, redisUp, bucket, tomb, usage, wiped>>
limiterVars == <<call, given, hist>>
mwVars == <<limits, mw>>
recVars == <<usage0, rec>>
quotaVars == <<qlimits, images, quota, qmw>>
jobVars == <<jobq, job, worker, plan, got, closed>>
notLimiter == <<mwVars, recVars, quotaVars, jobVars, upload, adm, svcVars>>
notMw == <<limiterVars, recVars, quotaVars, jobVars, upload, adm, svcVars>>
notRec == <<limiterVars, mwVars, quotaVars, jobVars, upload, adm, svcVars>>
notQuota == <<limiterVars, mwVars, jobVars, upload, adm, svcVars>>
notJobs == <<storeVars, limiterVars, mwVars, recVars, quotaVars, upload, adm, svcVars>>
notUpload == <<storeVars, limiterVars, mwVars, recVars, quotaVars, jobVars, adm,
               svcVars>>
notAdm == <<limiterVars, mwVars, recVars, quotaVars, jobVars, upload, svcVars>>
vars == <<clock, ticks, redisUp, bucket, tomb, usage, wiped, call, given, hist,
          limits, mw, usage0, rec, qlimits, images, quota, qmw, jobq, job,
          worker, plan, got, closed, upload, adm, svcVars>>

----------------------------------------------------------------------------
(* Bounds of the model *)

MaxCap == 2
MaxTicks == 2
MaxBurst == 5

(* Program constants *)

SecondsPerMinute == 60
BucketTtl == 3600
ResetAfter == 60
Requested == 1
Half == 65536

Tasks == {1, 2, 3}
Callers == {1, 2}
Windows == {"minute", "hour", "day"}
Caps == 0..MaxCap
Rates == {30, 60}
TickSteps == {1}

Min(a, b) == IF a <= b THEN a ELSE b

----------------------------------------------------------------------------
(* The Redis hash of one bucket.  A missing key is a record with           *)
(* present = FALSE.                                                        *)

Missing == [present |-> FALSE, tokens |-> 0, last_refill |-> 0, expire_at |-> 0]

\* local tokens = tonumber(bucket[1]) or capacity
StoredTokens(b, capacity) == IF b.present THEN b.tokens ELSE capacity

\* local last_refill = tonumber(bucket[2]) or now
StoredLastRefill(b, now) == IF b.present THEN b.last_refill ELSE now

\* the rate divided by 60 in integers before it is multiplied
TokensToAddDivFirst(time_elapsed, refill_rate) ==
    time_elapsed * (refill_rate \div SecondsPerMinute)

\* math.floor(time_elapsed * refill_rate / 60)
TokensToAdd(time_elapsed, refill_rate) ==
    (time_elapsed * refill_rate) \div SecondsPerMinute

\* the cap forgotten
RefilledUncapped(b, capacity, refill_rate, now) ==
    StoredTokens(b, capacity)
      + TokensToAdd(now - StoredLastRefill(b, now), refill_rate)

\* tokens = math.min(capacity, tokens + tokens_to_add)
Refilled(b, capacity, refill_rate, now) ==
    Min(capacity,
        StoredTokens(b, capacity)
          + TokensToAdd(now - StoredLastRefill(b, now), refill_rate))

\* the decrement forgotten
ConsumeNothing(tokens, requested) == tokens

\* if tokens >= requested then tokens = tokens - requested; allowed = 1 end
Consume(tokens, requested) == tokens - requested

\* The reply {allowed, tokens, capacity} of the script.
ScriptReply(b, capacity, refill_rate, now, requested) ==
    LET t == Refilled(b, capacity, refill_rate, now)
    IN  IF t >= requested
          THEN <<1, Consume(t, requested), capacity>>
          ELSE <<0, t, capacity>>

\* HMSET key tokens <tokens> last_refill <now>; EXPIRE key 3600
ScriptWrite(reply, now, redisNow) ==
    [present |-> TRUE, tokens |-> reply[2], last_refill |-> now,
     expire_at |-> redisNow + BucketTtl]

\* result[1] as u32: an i32 seen as 32 bits, kept as two 16-bit halves
\* (the value is hi * 65536 + lo)
AsU32(x) == [hi |-> (x \div Half) % Half, lo |-> x % Half]

\* u <= n for a u32 u and a natural number n below 2^31
U32Leq(u, n) ==
    \/ u.hi < n \div Half
    \/ u.hi = n \div Half /\ u.lo <= n % Half

\* Ok(RateLimitResult { allowed, remaining_tokens, capacity, reset_time })
ToResult(reply, capacity, now) ==
    [allowed |-> reply[1] = 1, remaining_tokens |-> AsU32(reply[2]),
     capacity |-> capacity, reset_time |-> now + ResetAfter]

NoReply == <<0, 0, 0>>
NoResult == [allowed |-> FALSE, remaining_tokens |-> AsU32(0), capacity |-> 0,
             reset_time |-> 0]

----------------------------------------------------------------------------
(* The clock and the store *)

(* The Redis string of one usage counter.  ttl = FALSE is a key without    *)
(* a time to live.                                                         *)

Kinds == {"daily_uploads", "monthly_uploads", "daily_bytes", "monthly_bytes",
          "daily_bandwidth", "monthly_bandwidth", "daily", "monthly"}

NoCounter == [present |-> FALSE, value |-> 0, ttl |-> FALSE, expire_at |-> 0]

CounterExpired(u, t) == u.present /\ u.ttl /\ t >= u.expire_at

\* A key whose TTL has passed is gone; the hash it held is remembered.
Expired(b, t) == b.present /\ t >= b.expire_at

Tick(d) ==
    /\ ticks < MaxTicks
    /\ clock' = clock + d
    /\ ticks' = ticks + 1
    /\ bucket' = [w \in Windows |->
                    IF Expired(bucket[w], clock + d) THEN Missing ELSE bucket[w]]
    /\ tomb' = [w \in Windows |->
                    IF Expired(bucket[w], clock + d) THEN bucket[w] ELSE tomb[w]]
    /\ usage' = [k \in Kinds |->
                    IF CounterExpired(usage[k], clock + d)
                      THEN NoCounter ELSE usage[k]]
    /\ wiped' = wiped \cup {k \in Kinds : CounterExpired(usage[k], clock + d)}
    /\ UNCHANGED redisUp

StoreDown ==
    /\ redisUp
    /\ redisUp' = FALSE
    /\ UNCHANGED <<clock, ticks, bucket, tomb, usage, wiped>>

StoreUp ==
    /\ ~redisUp
    /\ redisUp' = TRUE
    /\ UNCHANGED <<clock, ticks, bucket, tomb, usage, wiped>>

----------------------------------------------------------------------------
(* RateLimiter::check_rate_limit, called by concurrent tasks on the        *)
(* "minute" key of one API key.                                            *)

IdleCall == [pc |-> "idle", capacity |-> 0, refill_rate |-> 0, now |-> 0,
             reply |-> NoReply, result |-> NoResult]

\* key and now are computed; the script has not run yet
Begin(t, capacity, refill_rate) ==
    /\ call[t].pc # "called"
    /\ call' = [call EXCEPT ![t] =
                  [pc |-> "called", capacity |-> capacity,
                   refill_rate |-> refill_rate, now |-> clock,
                   reply |-> NoReply, result |-> NoResult]]
    /\ UNCHANGED storeVars

\* the script runs atomically in the store and the call returns Ok
Invoke(t) ==
    /\ call[t].pc = "called"
    /\ redisUp
    /\ LET c == call[t]
           reply == ScriptReply(bucket["minute"], c.capacity, c.refill_rate,
                                c.now, Requested)
       IN  /\ bucket' = [bucket EXCEPT
                           !["minute"] = ScriptWrite(reply, c.now, clock)]
           /\ tomb' = [tomb EXCEPT !["minute"] = Missing]
           /\ call' = [call EXCEPT ![t].pc = "ok", ![t].reply = reply,
                         ![t].result = ToResult(reply, c.capacity, c.now)]
    /\ UNCHANGED <<clock, ticks, redisUp, usage, wiped>>

\* the store is unreachable: map_err(AppError::Redis)?
InvokeErr(t) ==
    /\ call[t].pc = "called"
    /\ ~redisUp
    /\ call' = [call EXCEPT ![t].pc = "err"]
    /\ UNCHANGED storeVars

----------------------------------------------------------------------------

NoLimits == [requests_per_minute |-> 0, requests_per_hour |-> 0,
             requests_per_day |-> 0]
IdleMw == [pc |-> "idle", outcome |-> "none",
           checks |-> [w \in Windows |-> "none"]]

Recorders == {1, 2}
IdleRec == [pc |-> "idle", op |-> "none", amount |-> 0, idx |-> 0,
            at |-> "none"]

NoQuotaLimits == [daily_limit |-> 0, monthly_limit |-> 0, max_images |-> 0,
                  max_image_size_bytes |-> 0]
ImageSlots == {1, 2}
ImageSizes == {1, 2}
NoUsage == [daily_uploads |-> 0, monthly_uploads |-> 0, image_count |-> 0,
            storage_used |-> 0]
IdleQuota == [pc |-> "idle", file_size |-> 0, violations |-> <<>>,
              current_usage |-> NoUsage, allowed |-> FALSE]
IdleQmw == [pc |-> "idle", outcome |-> "none", error |-> "none",
            used |-> NoUsage]

NoGiven == [capacity |-> 0, refill_rate |-> 0, tokens0 |-> 0]

MaxJobs == 3
MaxWorkers == 2
Jobs == 1..MaxJobs
Workers == 1..MaxWorkers
NoJob == [status |-> "none", retry_count |-> 0, attempts |-> 0]
IdleWorker == [pc |-> "recv", job |-> 0]

MaxUploads == 3
Uploads == 1..MaxUploads
NoUpload == [status |-> "none", worker |-> 0]
IdleAdm == [pc |-> "idle", outcome |-> "none",
            checks |-> [w \in Windows |-> "none"],
            before |-> [w \in Windows |-> Missing], at |-> 0]

\* the key session:<id>; ttl = FALSE is a key without a time to live
NoSession == [present |-> FALSE, user_id |-> 0, last_accessed |-> 0,
              ttl |-> FALSE, expire_at |-> 0]
Getters == {1, 2}
IdleGet == [pc |-> "idle", data |-> NoSession, result |-> 0]

\* the sorted set: members <<score, random>>, named "<now>:<random>"
NoZset == [members |-> {}, present |-> FALSE, expire_at |-> 0]
IdleZcall == [pc |-> "idle", now |-> 0, allowed |-> FALSE]

\* admitted: the times at which a request of the client was forwarded
IdlePub == [pc |-> "idle", outcome |-> "none", admitted |-> {}]

NoJobInput == [image_id |-> 0, thumbnail_sizes |-> <<>>, custom_sizes |-> <<>>]
IdleRun == [pc |-> "idle", idx |-> 0, variants |-> <<>>, run |-> 0]

\* no job queued, no process_job run and no file written
NoProcessing ==
    /\ pjob = [id |-> 0, image_id |-> 0, output_dir |-> <<>>]
    /\ prun = IdleRun
    /\ pfiles = {}
    /\ preturned = <<>>

MaxEntries == 2
CacheKeys == 1..(MaxEntries + 1)
NoData == [present |-> FALSE, expire_at |-> 0]

\* an empty transform cache
NoCache ==
    /\ lru = [k \in CacheKeys |-> -1]
    /\ tdata = [k \in CacheKeys |-> NoData]
    /\ recency = <<>>

NoStore == [stored |-> FALSE, at |-> 0, ttl |-> 0, deleted |-> FALSE]

\* a RedisService nothing has been stored in
NoSvc ==
    /\ session = NoSession
    /\ sget = [t \in Getters |-> IdleGet]
    /\ shist = NoStore
    /\ uq = [t \in Recorders |-> IdleQuota]
    /\ zkey = NoZset
    /\ zcall = [t \in Callers |-> IdleZcall]
    /\ zlog = <<>>
    /\ zgiven = [limit |-> 0, window |-> 0]
    /\ pub = IdlePub
    /\ NoProcessing
    /\ pgiven = NoJobInput
    /\ NoCache

\* an ImageProcessor that has been given no job
NoJobs ==
    /\ jobq = <<>>
    /\ job = [j \in Jobs |-> NoJob]
    /\ worker = [w \in Workers |-> IdleWorker]
    /\ plan = [j \in Jobs |-> <<>>]
    /\ got = [j \in Jobs |-> 0]
    /\ closed = FALSE

Init ==
    /\ clock = 0
    /\ ticks = 0
    /\ redisUp = TRUE
    /\ bucket = [w \in Windows |-> Missing]
    /\ tomb = [w \in Windows |-> Missing]
    /\ call = [t \in Tasks |-> IdleCall]
    /\ given = NoGiven
    /\ hist = <<>>
    /\ limits = NoLimits
    /\ mw = IdleMw
    /\ usage = [k \in Kinds |-> NoCounter]
    /\ wiped = {}
    /\ usage0 = 0
    /\ rec = [t \in Recorders |-> IdleRec]
    /\ qlimits = NoQuotaLimits
    /\ images = [i \in ImageSlots |-> 0]
    /\ quota = IdleQuota
    /\ qmw = IdleQmw
    /\ NoJobs
    /\ upload = [u \in Uploads |-> NoUpload]
    /\ adm = IdleAdm
    /\ NoSvc

Next ==
    \/ \E d \in TickSteps : Tick(d) /\ UNCHANGED <<limiterVars, notLimiter>>
    \/ StoreDown /\ UNCHANGED <<limiterVars, notLimiter>>
    \/ StoreUp /\ UNCHANGED <<limiterVars, notLimiter>>
    \/ \E t \in Callers, capacity \in Caps, refill_rate \in Rates :
          Begin(t, capacity, refill_rate) /\ UNCHANGED <<given, hist, notLimiter>>
    \/ \E t \in Callers : Invoke(t) /\ UNCHANGED <<given, hist, notLimiter>>
    \/ \E t \in Callers : InvokeErr(t) /\ UNCHANGED <<given, hist, notLimiter>>

Spec == Init /\ [][Next]_vars

----------------------------------------------------------------------------
(* Calls that race for the tokens of one bucket: every task calls          *)
(* check_rate_limit once, all at the same instant and with the same        *)
(* arguments, on a bucket that holds tokens0 tokens.                       *)

RaceBucket(tokens0) ==
    [present |-> TRUE, tokens |-> tokens0, last_refill |-> 0,
     expire_at |-> BucketTtl]

InitRace ==
    /\ clock = 0
    /\ ticks = 0
    /\ redisUp = TRUE
    /\ tomb = [w \in Windows |-> Missing]
    /\ call = [t \in Tasks |-> IdleCall]
    /\ hist = <<>>
    /\ limits = NoLimits
    /\ mw = IdleMw
    /\ usage = [k \in Kinds |-> NoCounter]
    /\ wiped = {}
    /\ usage0 = 0
    /\ rec = [t \in Recorders |-> IdleRec]
    /\ qlimits = NoQuotaLimits
    /\ images = [i \in ImageSlots |-> 0]
    /\ quota = IdleQuota
    /\ qmw = IdleQmw
    /\ NoJobs
    /\ upload = [u \in Uploads |-> NoUpload]
    /\ adm = IdleAdm
    /\ NoSvc
    /\ \E capacity \in 1..MaxCap, refill_rate \in Rates :
         \E tokens0 \in 0..capacity :
            /\ given = [capacity |-> capacity, refill_rate |-> refill_rate,
                       tokens0 |-> tokens0]
            /\ bucket = [w \in Windows |->
                           IF w = "minute" THEN RaceBucket(tokens0) ELSE Missing]

NextRace ==
    \/ StoreDown /\ UNCHANGED <<limiterVars, notLimiter>>
    \/ StoreUp /\ UNCHANGED <<limiterVars, notLimiter>>
    \/ \E t \in Tasks :
          /\ call[t].pc = "idle"
          /\ Begin(t, given.capacity, given.refill_rate)
          /\ UNCHANGED <<given, hist, notLimiter>>
    \/ \E t \in Tasks : Invoke(t) /\ UNCHANGED <<given, hist, notLimiter>>
    \/ \E t \in Tasks : InvokeErr(t) /\ UNCHANGED <<given, hist, notLimiter>>

SpecRace == InitRace /\ [][NextRace]_vars

----------------------------------------------------------------------------
(* One caller that calls check_rate_limit again and again on one bucket    *)
(* with capacity = refill_rate = c per minute, while time passes in steps  *)
(* of 30 and 60 seconds.  The bucket starts full: missing, or holding c.   *)

ScenarioSteps == {30, 60}
MaxHist == 2 * MaxBurst + 2

InitScenario ==
    /\ clock = 0
    /\ ticks = 0
    /\ redisUp = TRUE
    /\ tomb = [w \in Windows |-> Missing]
    /\ call = [t \in Tasks |-> IdleCall]
    /\ hist = <<>>
    /\ limits = NoLimits
    /\ mw = IdleMw
    /\ usage = [k \in Kinds |-> NoCounter]
    /\ wiped = {}
    /\ usage0 = 0
    /\ rec = [t \in Recorders |-> IdleRec]
    /\ qlimits = NoQuotaLimits
    /\ images = [i \in ImageSlots |-> 0]
    /\ quota = IdleQuota
    /\ qmw = IdleQmw
    /\ NoJobs
    /\ upload = [u \in Uploads |-> NoUpload]
    /\ adm = IdleAdm
    /\ NoSvc
    /\ \E c \in 1..MaxBurst :
         /\ given = [capacity |-> c, refill_rate |-> c, tokens0 |-> c]
         /\ \E b \in {Missing, RaceBucket(c)} :
               bucket = [w \in Windows |-> IF w = "minute" THEN b ELSE Missing]

NextScenario ==
    \/ \E d \in ScenarioSteps : Tick(d) /\ UNCHANGED <<limiterVars, notLimiter>>
    \/ /\ Len(hist) < MaxHist
       /\ Begin(1, given.capacity, given.refill_rate)
       /\ UNCHANGED <<given, hist, notLimiter>>
    \/ /\ Invoke(1)
       /\ hist' = Append(hist, <<call[1].now, call'[1].result.allowed>>)
       /\ UNCHANGED <<given, notLimiter>>

SpecScenario == InitScenario /\ [][NextScenario]_vars

----------------------------------------------------------------------------
(* rate_limit_middleware handling the requests of one API key, one at a    *)
(* time.                                                                   *)

MinutesPerHour == 60
MinutesPerDay == 1440

\* let rate_checks = [(limit_type, capacity, refill_rate), ...]
RateChecks(l) ==
    [minute |-> [capacity |-> l.requests_per_minute,
                 refill_rate |-> l.requests_per_minute],
     hour   |-> [capacity |-> l.requests_per_hour,
                 refill_rate |-> l.requests_per_hour \div MinutesPerHour],
     day    |-> [capacity |-> l.requests_per_day,
                 refill_rate |-> l.requests_per_day \div MinutesPerDay]]

\* the order of the loop over rate_checks
NextWindow(w) == IF w = "minute" THEN "hour" ELSE "day"

\* a failed check answered like a denial
LoopStepFailClosed(w, r) ==
    IF r = "allowed" THEN [pc |-> "done", outcome |-> "forwarded"]
    ELSE [pc |-> "done", outcome |-> "429"]

\* One iteration of the loop on the outcome r of the check of window w:
\* Ok and denied returns 429, Ok and allowed runs the handler and returns
\* its response, Err goes on to the next window; after the loop the handler
\* runs.
LoopStep(w, r) ==
    IF r = "denied" THEN [pc |-> "done", outcome |-> "429"]
    ELSE IF r = "allowed" THEN [pc |-> "done", outcome |-> "forwarded"]
    ELSE IF w = "day" THEN [pc |-> "done", outcome |-> "forwarded"]
    ELSE [pc |-> NextWindow(w), outcome |-> "none"]

\* a request arrives and its limits parse
MwStart ==
    /\ mw.pc \in {"idle", "done"}
    /\ mw' = [pc |-> "minute", outcome |-> "none",
              checks |-> [w \in Windows |-> "none"]]
    /\ UNCHANGED <<storeVars, limits>>

\* a request arrives and its limits do not parse
MwParseFail ==
    /\ mw.pc \in {"idle", "done"}
    /\ mw' = [pc |-> "done", outcome |-> "500",
              checks |-> [w \in Windows |-> "none"]]
    /\ UNCHANGED <<storeVars, limits>>

\* check_rate_limit(api_key.id, w, capacity, refill_rate) returns Ok
MwCheckOk(w) ==
    /\ mw.pc = w
    /\ redisUp
    /\ LET c == RateChecks(limits)[w]
           reply == ScriptReply(bucket[w], c.capacity, c.refill_rate, clock,
                                Requested)
           r == IF ToResult(reply, c.capacity, clock).allowed
                  THEN "allowed" ELSE "denied"
           step == LoopStep(w, r)
       IN  /\ bucket' = [bucket EXCEPT ![w] = ScriptWrite(reply, clock, clock)]
           /\ tomb' = [tomb EXCEPT ![w] = Missing]
           /\ mw' = [pc |-> step.pc, outcome |-> step.outcome,
                     checks |-> [mw.checks EXCEPT ![w] = r]]
    /\ UNCHANGED <<clock, ticks, redisUp, usage, wiped, limits>>

\* check_rate_limit returns Err: the warning is logged
MwCheckErr(w) ==
    /\ mw.pc = w
    /\ ~redisUp
    /\ LET step == LoopStep(w, "error")
       IN  mw' = [pc |-> step.pc, outcome |-> step.outcome,
                  checks |-> [mw.checks EXCEPT ![w] = "error"]]
    /\ UNCHANGED <<storeVars, limits>>

MwSteps == {60, 3600}

\* per-minute, per-hour and per-day limits of an API key
LimitChoices ==
    {l \in [requests_per_minute : 1..MaxCap, requests_per_hour : 1..MaxCap,
            requests_per_day : 1..MaxCap] :
        /\ l.requests_per_minute <= l.requests_per_hour
        /\ l.requests_per_hour <= l.requests_per_day}

InitMw ==
    /\ clock = 0
    /\ ticks = 0
    /\ redisUp = TRUE
    /\ bucket = [w \in Windows |-> Missing]
    /\ tomb = [w \in Windows |-> Missing]
    /\ call = [t \in Tasks |-> IdleCall]
    /\ given = NoGiven
    /\ hist = <<>>
    /\ limits \in LimitChoices
    /\ mw = IdleMw
    /\ usage = [k \in Kinds |-> NoCounter]
    /\ wiped = {}
    /\ usage0 = 0
    /\ rec = [t \in Recorders |-> IdleRec]
    /\ qlimits = NoQuotaLimits
    /\ images = [i \in ImageSlots |-> 0]
    /\ quota = IdleQuota
    /\ qmw = IdleQmw
    /\ NoJobs
    /\ upload = [u \in Uploads |-> NoUpload]
    /\ adm = IdleAdm
    /\ NoSvc

NextMw ==
    \/ \E d \in MwSteps : Tick(d) /\ UNCHANGED <<mwVars, notMw>>
    \/ StoreDown /\ UNCHANGED <<mwVars, notMw>>
    \/ StoreUp /\ UNCHANGED <<mwVars, notMw>>
    \/ MwStart /\ UNCHANGED notMw
    \/ MwParseFail /\ UNCHANGED notMw
    \/ \E w \in Windows : MwCheckOk(w) /\ UNCHANGED notMw
    \/ \E w \in Windows : MwCheckErr(w) /\ UNCHANGED notMw

SpecMw == InitMw /\ [][NextMw]_vars

----------------------------------------------------------------------------
(* RateLimiter::increment_usage_counter and get_usage_counter, and the     *)
(* QuotaManager::record_upload / record_download calls of concurrent       *)
(* tasks of one API key.                                                   *)

MaxAmount == 2

HourTtl == 3600
DayTtl == 86400
MonthTtl == 2592000

\* an expiration of 0 seconds
ExpirationNone(counter_type) == 0

\* let expiration = match counter_type { "daily" => .., "monthly" => .., _ => .. }
Expiration(counter_type) ==
    IF counter_type = "daily" THEN DayTtl
    ELSE IF counter_type = "monthly" THEN MonthTtl
    ELSE HourTtl

\* SET in the place of INCRBY
SetTo(u, amount) ==
    [present |-> TRUE, value |-> amount, ttl |-> u.ttl, expire_at |-> u.expire_at]

\* conn.incr(&key, amount): INCRBY creates a missing key at 0 and leaves the
\* time to live of the key as it is
IncrBy(u, amount) ==
    [present |-> TRUE, value |-> u.value + amount, ttl |-> u.ttl,
     expire_at |-> u.expire_at]

\* conn.expire(&key, expiration): EXPIRE does nothing to a missing key and
\* deletes the key when the time to live is not positive
ExpireKey(u, seconds, redisNow) ==
    IF ~u.present \/ seconds <= 0 THEN NoCounter
    ELSE [u EXCEPT !.ttl = TRUE, !.expire_at = redisNow + seconds]

\* Ok(value.unwrap_or(0))
GetUsageCounter(u) == IF u.present THEN u.value ELSE 0

\* the increment_usage_counter calls of record_upload and record_download,
\* in order: <<counter_type, amount>>
Increments(op, amount) ==
    IF op = "upload"
      THEN << <<"daily_uploads", 1>>, <<"monthly_uploads", 1>>,
              <<"daily_bytes", amount>>, <<"monthly_bytes", amount>> >>
      ELSE << <<"daily_bandwidth", amount>>, <<"monthly_bandwidth", amount>> >>

\* record_upload(file_size) or record_download(bytes_served) is called
RecordStart(t, op, amount) ==
    /\ rec[t].pc = "idle"
    /\ rec' = [rec EXCEPT ![t] = [pc |-> "incr", op |-> op, amount |-> amount,
                                  idx |-> 1, at |-> "none"]]
    /\ UNCHANGED <<storeVars, usage0>>

\* increment_usage_counter: conn.incr answers
Incr(t) ==
    /\ rec[t].pc = "incr"
    /\ redisUp
    /\ LET inc == Increments(rec[t].op, rec[t].amount)[rec[t].idx]
       IN  usage' = [usage EXCEPT ![inc[1]] = IncrBy(@, inc[2])]
    /\ rec' = [rec EXCEPT ![t].pc = "expire"]
    /\ UNCHANGED <<clock, ticks, redisUp, bucket, tomb, wiped, usage0>>

\* increment_usage_counter: conn.expire answers, and the call returns Ok
ExpireStep(t) ==
    /\ rec[t].pc = "expire"
    /\ redisUp
    /\ LET incs == Increments(rec[t].op, rec[t].amount)
           k == incs[rec[t].idx][1]
           u == ExpireKey(usage[k], Expiration(k), clock)
       IN  /\ usage' = [usage EXCEPT ![k] = u]
           /\ wiped' = IF usage[k].present /\ ~u.present
                          THEN wiped \cup {k} ELSE wiped
           /\ rec' = [rec EXCEPT
                        ![t].pc = IF rec[t].idx = Len(incs) THEN "db" ELSE "incr",
                        ![t].idx = IF rec[t].idx = Len(incs) THEN @ ELSE @ + 1]
    /\ UNCHANGED <<clock, ticks, redisUp, bucket, tomb, usage0>>

\* a command of increment_usage_counter fails: map_err(AppError::Redis)?
RedisErr(t) ==
    /\ rec[t].pc \in {"incr", "expire"}
    /\ ~redisUp
    /\ rec' = [rec EXCEPT ![t].pc = "err", ![t].at = rec[t].pc]
    /\ UNCHANGED <<storeVars, usage0>>

\* UsageQueries::update_usage answers and the call returns Ok(())
DbUpdate(t) ==
    /\ rec[t].pc = "db"
    /\ rec' = [rec EXCEPT ![t].pc = "ok"]
    /\ UNCHANGED <<storeVars, usage0>>

\* UsageQueries::update_usage fails
DbErr(t) ==
    /\ rec[t].pc = "db"
    /\ rec' = [rec EXCEPT ![t].pc = "err", ![t].at = "db"]
    /\ UNCHANGED <<storeVars, usage0>>

\* the usage keys reset_quota deletes for a quota_type
ResetKinds(quota_type) ==
    IF quota_type = "daily" THEN {"daily_uploads"}
    ELSE IF quota_type = "monthly" THEN {"monthly_uploads"}
    ELSE {"daily_uploads", "monthly_uploads", "daily_bandwidth",
          "monthly_bandwidth"}

\* the rate-limit windows reset_quota resets for a quota_type
ResetWindows(quota_type) ==
    IF quota_type = "all" THEN {"daily", "monthly", "minute", "hour"}
    ELSE {quota_type}

\* handlers::admin::reset_quota, by an administrator
AdminReset(quota_type) ==
    /\ redisUp
    /\ bucket' = [w \in Windows |->
                    IF w \in ResetWindows(quota_type) THEN Missing ELSE bucket[w]]
    /\ tomb' = [w \in Windows |->
                    IF w \in ResetWindows(quota_type) THEN Missing ELSE tomb[w]]
    /\ usage' = [k \in Kinds |->
                    IF k \in ResetKinds(quota_type) THEN NoCounter ELSE usage[k]]
    /\ wiped' = wiped \cup {k \in ResetKinds(quota_type) : usage[k].present}
    /\ UNCHANGED <<clock, ticks, redisUp, usage0, rec>>

QuotaTypes == {"daily", "monthly", "all"}
Amounts == 1..MaxAmount
UsageSteps == {3600}

StartCounter(v0) ==
    IF v0 = 0 THEN NoCounter
    ELSE [present |-> TRUE, value |-> v0, ttl |-> TRUE, expire_at |-> HourTtl]

InitUsage ==
    /\ clock = 0
    /\ ticks = 0
    /\ redisUp = TRUE
    /\ bucket = [w \in Windows |-> Missing]
    /\ tomb = [w \in Windows |-> Missing]
    /\ call = [t \in Tasks |-> IdleCall]
    /\ given = NoGiven
    /\ hist = <<>>
    /\ limits = NoLimits
    /\ mw = IdleMw
    /\ wiped = {}
    /\ usage0 \in {0, 1}
    /\ usage = [k \in Kinds |-> StartCounter(usage0)]
    /\ rec = [t \in Recorders |-> IdleRec]
    /\ qlimits = NoQuotaLimits
    /\ images = [i \in ImageSlots |-> 0]
    /\ quota = IdleQuota
    /\ qmw = IdleQmw
    /\ NoJobs
    /\ upload = [u \in Uploads |-> NoUpload]
    /\ adm = IdleAdm
    /\ NoSvc

NextUsage ==
    \/ \E d \in UsageSteps : Tick(d) /\ UNCHANGED <<recVars, notRec>>
    \/ StoreDown /\ UNCHANGED <<recVars, notRec>>
    \/ StoreUp /\ UNCHANGED <<recVars, notRec>>
    \/ \E t \in Recorders, op \in {"upload", "download"}, amount \in Amounts :
          RecordStart(t, op, amount) /\ UNCHANGED notRec
    \/ \E t \in Recorders : Incr(t) /\ UNCHANGED notRec
    \/ \E t \in Recorders : ExpireStep(t) /\ UNCHANGED notRec
    \/ \E t \in Recorders : RedisErr(t) /\ UNCHANGED notRec
    \/ \E t \in Recorders : DbUpdate(t) /\ UNCHANGED notRec
    \/ \E t \in Recorders : DbErr(t) /\ UNCHANGED notRec
    \/ \E q \in QuotaTypes : AdminReset(q) /\ UNCHANGED notRec

SpecUsage == InitUsage /\ [][NextUsage]_vars

----------------------------------------------------------------------------
(* QuotaManager::check_upload_quota and quota_middleware, beside the       *)
(* record_upload / record_download calls, the resets and the image rows    *)
(* of the owner.  One of the two reading requests runs at a time.          *)

MaxLimit == 2
StorageFactor == 10

RECURSIVE SumSizes(_, _)
SumSizes(f, S) ==
    IF S = {} THEN 0
    ELSE LET i == CHOOSE x \in S : TRUE IN f[i] + SumSizes(f, S \ {i})

\* SELECT COUNT(*) FROM images WHERE owner_id = $1 AND deleted_at IS NULL
ImageCount(rows) == Cardinality({i \in ImageSlots : rows[i] > 0})

\* SELECT COALESCE(SUM(orig_size_bytes), 0) FROM images WHERE ...
StorageUsed(rows) == SumSizes(rows, ImageSlots)

\* .fetch_one(..).await.unwrap_or(0)
UnwrapOr0(ok, v) == IF ok THEN v ELSE 0

\* the ceiling of quota_middleware in the place of max_storage
MaxStorageTenfold(l) == l.max_image_size_bytes * StorageFactor

\* let max_storage = limits.max_image_size_bytes * limits.max_images as u64
MaxStorage(l) == l.max_image_size_bytes * l.max_images

\* only the first violation kept
PushFirst(violations, failed, violation_type, current_value, limit_value) ==
    IF failed /\ violations = <<>>
      THEN <<[violation_type |-> violation_type,
              current_value |-> current_value, limit_value |-> limit_value]>>
      ELSE violations

\* if <failed> { violations.push(QuotaViolation { .. }) }
Push(violations, failed, violation_type, current_value, limit_value) ==
    IF failed
      THEN Append(violations,
                  [violation_type |-> violation_type,
                   current_value |-> current_value, limit_value |-> limit_value])
      ELSE violations

\* check_upload_quota is called: the file size check, up to the first await
QStart(file_size) ==
    /\ quota.pc \in {"idle", "done"}
    /\ qmw.pc \in {"idle", "done"}
    /\ quota' = [pc |-> "daily", file_size |-> file_size,
                 violations |->
                    Push(<<>>, file_size > qlimits.max_image_size_bytes,
                         "FileSizeExceeded", file_size,
                         qlimits.max_image_size_bytes),
                 current_usage |-> NoUsage, allowed |-> FALSE]
    /\ UNCHANGED <<storeVars, recVars, notQuota, qlimits, images, qmw>>

\* a check that counts itself as an upload of the day
QDailyCounting ==
    /\ quota.pc = "daily"
    /\ redisUp
    /\ usage' = [usage EXCEPT !["daily_uploads"] = IncrBy(@, 1)]
    /\ quota' = [quota EXCEPT !.pc = "monthly"]
    /\ UNCHANGED <<clock, ticks, redisUp, bucket, tomb, wiped, recVars,
                   notQuota, qlimits, images, qmw>>

\* get_usage_counter(api_key_id, "daily_uploads").await.unwrap_or(0)
QDaily ==
    /\ quota.pc = "daily"
    /\ LET v == UnwrapOr0(redisUp, GetUsageCounter(usage["daily_uploads"]))
       IN  quota' = [quota EXCEPT
                       !.pc = "monthly",
                       !.current_usage.daily_uploads = v,
                       !.violations =
                          Push(@, v >= qlimits.daily_limit,
                               "DailyUploadsExceeded", v, qlimits.daily_limit)]
    /\ UNCHANGED <<storeVars, recVars, notQuota, qlimits, images, qmw>>

\* get_usage_counter(api_key_id, "monthly_uploads").await.unwrap_or(0)
QMonthly ==
    /\ quota.pc = "monthly"
    /\ LET v == UnwrapOr0(redisUp, GetUsageCounter(usage["monthly_uploads"]))
       IN  quota' = [quota EXCEPT
                       !.pc = "count",
                       !.current_usage.monthly_uploads = v,
                       !.violations =
                          Push(@, v >= qlimits.monthly_limit,
                               "MonthlyUploadsExceeded", v,
                               qlimits.monthly_limit)]
    /\ UNCHANGED <<storeVars, recVars, notQuota, qlimits, images, qmw>>

\* the COUNT(*) query; ok = FALSE: the database does not answer
QCount(ok) ==
    /\ quota.pc = "count"
    /\ LET v == UnwrapOr0(ok, ImageCount(images))
       IN  quota' = [quota EXCEPT
                       !.pc = "storage",
                       !.current_usage.image_count = v,
                       !.violations =
                          Push(@, v >= qlimits.max_images,
                               "ImageCountExceeded", v, qlimits.max_images)]
    /\ UNCHANGED <<storeVars, recVars, notQuota, qlimits, images, qmw>>

\* the SUM(orig_size_bytes) query, the storage check and the result
QStorage(ok) ==
    /\ quota.pc = "storage"
    /\ LET v == UnwrapOr0(ok, StorageUsed(images))
           vs == Push(quota.violations,
                      v + quota.file_size > MaxStorage(qlimits),
                      "StorageExceeded", v + quota.file_size,
                      MaxStorage(qlimits))
       IN  quota' = [quota EXCEPT
                       !.pc = "done",
                       !.current_usage.storage_used = v,
                       !.violations = vs,
                       !.allowed = (vs = <<>>)]
    /\ UNCHANGED <<storeVars, recVars, notQuota, qlimits, images, qmw>>

\* quota_middleware: a request arrives and its limits parse
QmwStart ==
    /\ qmw.pc \in {"idle", "done"}
    /\ quota.pc \in {"idle", "done"}
    /\ qmw' = [IdleQmw EXCEPT !.pc = "daily"]
    /\ UNCHANGED <<storeVars, recVars, notQuota, qlimits, images, quota>>

\* quota_middleware: the limits do not parse
QmwParseFail ==
    /\ qmw.pc \in {"idle", "done"}
    /\ quota.pc \in {"idle", "done"}
    /\ qmw' = [IdleQmw EXCEPT !.pc = "done", !.outcome = "500"]
    /\ UNCHANGED <<storeVars, recVars, notQuota, qlimits, images, quota>>

\* one check of quota_middleware: 429 when the value read reaches the limit
QmwStep(field, v, limit, error, next) ==
    IF v >= limit
      THEN [qmw EXCEPT !.pc = "done", !.outcome = "429", !.error = error,
                       !.used[field] = v]
      ELSE [qmw EXCEPT !.pc = next, !.used[field] = v,
                       !.outcome = IF next = "done" THEN "forwarded" ELSE @]

\* get_usage_counter(api_key.id, "daily").await.unwrap_or(0)
QmwDaily ==
    /\ qmw.pc = "daily"
    /\ qmw' = QmwStep("daily_uploads",
                      UnwrapOr0(redisUp, GetUsageCounter(usage["daily"])),
                      qlimits.daily_limit, "Daily quota exceeded", "monthly")
    /\ UNCHANGED <<storeVars, recVars, notQuota, qlimits, images, quota>>

\* get_usage_counter(api_key.id, "monthly").await.unwrap_or(0)
QmwMonthly ==
    /\ qmw.pc = "monthly"
    /\ qmw' = QmwStep("monthly_uploads",
                      UnwrapOr0(redisUp, GetUsageCounter(usage["monthly"])),
                      qlimits.monthly_limit, "Monthly quota exceeded", "count")
    /\ UNCHANGED <<storeVars, recVars, notQuota, qlimits, images, quota>>

\* the COUNT(*) query of quota_middleware
QmwCount(ok) ==
    /\ qmw.pc = "count"
    /\ qmw' = QmwStep("image_count", UnwrapOr0(ok, ImageCount(images)),
                      qlimits.max_images, "Maximum image count exceeded",
                      "storage")
    /\ UNCHANGED <<storeVars, recVars, notQuota, qlimits, images, quota>>

\* the SUM query of quota_middleware; then the handler runs
QmwStorage(ok) ==
    /\ qmw.pc = "storage"
    /\ qmw' = QmwStep("storage_used", UnwrapOr0(ok, StorageUsed(images)),
                      qlimits.max_image_size_bytes * StorageFactor,
                      "Storage quota exceeded", "done")
    /\ UNCHANGED <<storeVars, recVars, notQuota, qlimits, images, quota>>

\* an image row of the owner is inserted (an upload, by any of its keys)
ImageInsert(i, size) ==
    /\ images[i] = 0
    /\ images' = [images EXCEPT ![i] = size]
    /\ UNCHANGED <<storeVars, recVars, notQuota, qlimits, quota, qmw>>

\* an image row of the owner gets its deleted_at
ImageDelete(i) ==
    /\ images[i] > 0
    /\ images' = [images EXCEPT ![i] = 0]
    /\ UNCHANGED <<storeVars, recVars, notQuota, qlimits, quota, qmw>>

QuotaLimitChoices ==
    {l \in [daily_limit : 1..MaxLimit, monthly_limit : 1..MaxLimit,
            max_images : 1..2, max_image_size_bytes : 1..2] :
        l.daily_limit <= l.monthly_limit}

\* the counters read by check_upload_quota hold d uploads of today among m
\* of this month; the others are unused
DrawnUsage(d, m) ==
    [k \in Kinds |->
        IF k = "daily_uploads" THEN StartCounter(d)
        ELSE IF k = "monthly_uploads" THEN StartCounter(m)
        ELSE NoCounter]

InitQuota ==
    /\ clock = 0
    /\ ticks = 0
    /\ redisUp = TRUE
    /\ bucket = [w \in Windows |-> Missing]
    /\ tomb = [w \in Windows |-> Missing]
    /\ call = [t \in Tasks |-> IdleCall]
    /\ given = NoGiven
    /\ hist = <<>>
    /\ limits = NoLimits
    /\ mw = IdleMw
    /\ wiped = {}
    /\ usage0 = 0
    /\ \E m \in 0..MaxLimit : \E d \in 0..m : usage = DrawnUsage(d, m)
    /\ rec = [t \in Recorders |-> IdleRec]
    /\ qlimits \in QuotaLimitChoices
    /\ images = [i \in ImageSlots |-> 0]
    /\ quota = IdleQuota
    /\ qmw = IdleQmw
    /\ NoJobs
    /\ upload = [u \in Uploads |-> NoUpload]
    /\ adm = IdleAdm
    /\ NoSvc

NextQuota ==
    \/ StoreDown /\ UNCHANGED <<recVars, notRec>>
    \/ StoreUp /\ UNCHANGED <<recVars, notRec>>
    \/ \E file_size \in Amounts : QStart(file_size)
    \/ QDaily
    \/ QMonthly
    \/ \E ok \in BOOLEAN : QCount(ok)
    \/ \E ok \in BOOLEAN : QStorage(ok)
    \/ \E i \in ImageSlots, size \in ImageSizes : ImageInsert(i, size)
    \/ \E i \in ImageSlots : ImageDelete(i)

SpecQuota == InitQuota /\ [][NextQuota]_vars

----------------------------------------------------------------------------
(* Everything that touches the usage counters of one API key: one task     *)
(* recording uploads and downloads, the two reading requests, the resets   *)
(* of an administrator and the passing of time.                            *)

AcctLimits == [daily_limit |-> 1, monthly_limit |-> 2, max_images |-> 2,
               max_image_size_bytes |-> 2]

InitAcct ==
    /\ clock = 0
    /\ ticks = 0
    /\ redisUp = TRUE
    /\ bucket = [w \in Windows |-> Missing]
    /\ tomb = [w \in Windows |-> Missing]
    /\ call = [t \in Tasks |-> IdleCall]
    /\ given = NoGiven
    /\ hist = <<>>
    /\ limits = NoLimits
    /\ mw = IdleMw
    /\ wiped = {}
    /\ usage0 = 0
    /\ usage = [k \in Kinds |-> NoCounter]
    /\ rec = [t \in Recorders |-> IdleRec]
    /\ qlimits = AcctLimits
    /\ images = [i \in ImageSlots |-> 0]
    /\ quota = IdleQuota
    /\ qmw = IdleQmw
    /\ NoJobs
    /\ upload = [u \in Uploads |-> NoUpload]
    /\ adm = IdleAdm
    /\ NoSvc

NextAcct ==
    \/ \E d \in UsageSteps : Tick(d) /\ UNCHANGED <<recVars, notRec>>
    \/ StoreDown /\ UNCHANGED <<recVars, notRec>>
    \/ StoreUp /\ UNCHANGED <<recVars, notRec>>
    \/ \E op \in {"upload", "download"}, amount \in Amounts :
          RecordStart(1, op, amount) /\ UNCHANGED notRec
    \/ Incr(1) /\ UNCHANGED notRec
    \/ ExpireStep(1) /\ UNCHANGED notRec
    \/ RedisErr(1) /\ UNCHANGED notRec
    \/ DbUpdate(1) /\ UNCHANGED notRec
    \/ DbErr(1) /\ UNCHANGED notRec
    \/ \E q \in QuotaTypes : AdminReset(q) /\ UNCHANGED notRec
    \/ \E file_size \in Amounts : QStart(file_size)
    \/ QDaily
    \/ QMonthly
    \/ \E ok \in BOOLEAN : QCount(ok)
    \/ \E ok \in BOOLEAN : QStorage(ok)
    \/ QmwStart
    \/ QmwParseFail
    \/ QmwDaily
    \/ QmwMonthly
    \/ \E ok \in BOOLEAN : QmwCount(ok)
    \/ \E ok \in BOOLEAN : QmwStorage(ok)

SpecAcct == InitAcct /\ [][NextAcct]_vars

----------------------------------------------------------------------------
(* ImageProcessor: queue_processing_job sends ProcessingJobs into the      *)
(* channel, max_workers worker_loop tasks receive from it.  The receiver   *)
(* handed to each worker is a clone of the one receiver of the channel:    *)
(* the workers take from one shared queue, in FIFO order.                  *)

MaxRetries == 3

\* the results process_job gives to the successive attempts of a job: "ok"
\* for Ok(variants), "err" for an Err of a processing step, "invalid" for
\* the Err it gives every time to a job whose parameters are malformed
Plans == {<<"ok">>, <<"err", "err", "ok">>, <<"err", "err", "err", "err">>,
          <<"invalid">>}

\* the result of the attempt of job j that is running
Outcome(j) == plan[j][Min(job[j].attempts, Len(plan[j]))]

\* queue_processing_job: a job with a fresh id (the next unused one),
\* Queued, is sent
QueueProcessingJob(j, results) ==
    /\ ~closed
    /\ job[j].status = "none"
    /\ \A i \in Jobs : i < j => job[i].status # "none"
    /\ job' = [job EXCEPT ![j] = [status |-> "Queued", retry_count |-> 0,
                                  attempts |-> 0]]
    /\ plan' = [plan EXCEPT ![j] = results]
    /\ jobq' = Append(jobq, j)
    /\ UNCHANGED <<worker, got, closed>>

\* recv that returns the head of the channel and leaves it there
RecvPeek(w) ==
    /\ worker[w].pc = "recv"
    /\ jobq # <<>>
    /\ LET j == Head(jobq)
       IN  /\ job' = [job EXCEPT ![j].status = "Processing",
                                 ![j].attempts = @ + 1]
           /\ worker' = [worker EXCEPT ![w] = [pc |-> "process", job |-> j]]
           /\ got' = [got EXCEPT ![j] = @ + 1]
    /\ UNCHANGED <<jobq, plan, closed>>

\* a worker that takes the next job without finishing the one it holds
RecvWhileBusy(w) ==
    /\ worker[w].pc \in {"recv", "process"}
    /\ jobq # <<>>
    /\ LET j == Head(jobq)
       IN  /\ jobq' = Tail(jobq)
           /\ job' = [job EXCEPT ![j].status = "Processing",
                                 ![j].attempts = @ + 1]
           /\ worker' = [worker EXCEPT ![w] = [pc |-> "process", job |-> j]]
           /\ got' = [got EXCEPT ![j] = @ + 1]
    /\ UNCHANGED <<plan, closed>>

\* while let Some(mut job) = receiver.recv().await: the job leaves the
\* channel, becomes Processing and process_job is called
Recv(w) ==
    /\ worker[w].pc = "recv"
    /\ jobq # <<>>
    /\ LET j == Head(jobq)
       IN  /\ jobq' = Tail(jobq)
           /\ job' = [job EXCEPT ![j].status = "Processing",
                                 ![j].attempts = @ + 1]
           /\ worker' = [worker EXCEPT ![w] = [pc |-> "process", job |-> j]]
           /\ got' = [got EXCEPT ![j] = @ + 1]
    /\ UNCHANGED <<plan, closed>>

\* a completed job sent back into the channel
ProcessOkRequeue(w) ==
    /\ worker[w].pc = "process"
    /\ Outcome(worker[w].job) = "ok"
    /\ job' = [job EXCEPT ![worker[w].job].status = "Completed"]
    /\ jobq' = Append(jobq, worker[w].job)
    /\ worker' = [worker EXCEPT ![w] = IdleWorker]
    /\ UNCHANGED <<plan, got, closed>>

\* process_job returns Ok(variants); the iteration ends and the job is
\* dropped
ProcessOk(w) ==
    /\ worker[w].pc = "process"
    /\ Outcome(worker[w].job) = "ok"
    /\ job' = [job EXCEPT ![worker[w].job].status = "Completed"]
    /\ worker' = [worker EXCEPT ![w] = IdleWorker]
    /\ UNCHANGED <<jobq, plan, got, closed>>

\* the error of process_job leaving the worker_loop
ProcessErrEscapes(w) ==
    /\ worker[w].pc = "process"
    /\ Outcome(worker[w].job) # "ok"
    /\ job' = [job EXCEPT ![worker[w].job].status = "Failed",
                          ![worker[w].job].retry_count = @ + 1]
    /\ worker' = [worker EXCEPT ![w].pc = "stopped"]
    /\ UNCHANGED <<jobq, plan, got, closed>>

\* process_job returns Err(e): Failed, retry_count += 1
ProcessErr(w) ==
    /\ worker[w].pc = "process"
    /\ Outcome(worker[w].job) # "ok"
    /\ job' = [job EXCEPT ![worker[w].job].status = "Failed",
                          ![worker[w].job].retry_count = @ + 1]
    /\ worker' = [worker EXCEPT ![w].pc = "failed"]
    /\ UNCHANGED <<jobq, plan, got, closed>>

\* if job.retry_count < 3 { Retrying; sleep(retry_count * 10 s) }
RetryLogic(w) ==
    /\ worker[w].pc = "failed"
    /\ IF job[worker[w].job].retry_count < MaxRetries
         THEN /\ job' = [job EXCEPT ![worker[w].job].status = "Retrying"]
              /\ worker' = [worker EXCEPT ![w].pc = "sleep"]
         ELSE /\ job' = job
              /\ worker' = [worker EXCEPT ![w] = IdleWorker]
    /\ UNCHANGED <<jobq, plan, got, closed>>

\* the sleep returns; the iteration ends and the job is dropped
SleepDone(w) ==
    /\ worker[w].pc = "sleep"
    /\ worker' = [worker EXCEPT ![w] = IdleWorker]
    /\ UNCHANGED <<jobq, job, plan, got, closed>>

\* drop(job_sender): shutdown, or the ImageProcessor goes out of scope
DropSender ==
    /\ ~closed
    /\ closed' = TRUE
    /\ UNCHANGED <<jobq, job, worker, plan, got>>

\* recv returns None on the closed and empty channel: the loop ends
WorkerStop(w) ==
    /\ worker[w].pc = "recv"
    /\ closed
    /\ jobq = <<>>
    /\ worker' = [worker EXCEPT ![w].pc = "stopped"]
    /\ UNCHANGED <<jobq, job, plan, got, closed>>

InitJobs ==
    /\ clock = 0
    /\ ticks = 0
    /\ redisUp = TRUE
    /\ bucket = [w \in Windows |-> Missing]
    /\ tomb = [w \in Windows |-> Missing]
    /\ call = [t \in Tasks |-> IdleCall]
    /\ given = NoGiven
    /\ hist = <<>>
    /\ limits = NoLimits
    /\ mw = IdleMw
    /\ usage = [k \in Kinds |-> NoCounter]
    /\ wiped = {}
    /\ usage0 = 0
    /\ rec = [t \in Recorders |-> IdleRec]
    /\ qlimits = NoQuotaLimits
    /\ images = [i \in ImageSlots |-> 0]
    /\ quota = IdleQuota
    /\ qmw = IdleQmw
    /\ NoJobs
    /\ upload = [u \in Uploads |-> NoUpload]
    /\ adm = IdleAdm
    /\ NoSvc

NextJobs ==
    \/ \E j \in Jobs, results \in Plans :
          QueueProcessingJob(j, results) /\ UNCHANGED notJobs
    \/ \E w \in Workers : Recv(w) /\ UNCHANGED notJobs
    \/ \E w \in Workers : ProcessOk(w) /\ UNCHANGED notJobs
    \/ \E w \in Workers : ProcessErr(w) /\ UNCHANGED notJobs
    \/ \E w \in Workers : RetryLogic(w) /\ UNCHANGED notJobs
    \/ \E w \in Workers : SleepDone(w) /\ UNCHANGED notJobs
    \/ DropSender /\ UNCHANGED notJobs
    \/ \E w \in Workers : WorkerStop(w) /\ UNCHANGED notJobs

SpecJobs == InitJobs /\ [][NextJobs]_vars

\* the runtime schedules every worker task that can take a step
SpecJobsFair ==
    /\ SpecJobs
    /\ \A w \in Workers :
          /\ WF_vars(Recv(w) /\ UNCHANGED notJobs)
          /\ WF_vars(ProcessOk(w) /\ UNCHANGED notJobs)
          /\ WF_vars(ProcessErr(w) /\ UNCHANGED notJobs)
          /\ WF_vars(RetryLogic(w) /\ UNCHANGED notJobs)
          /\ WF_vars(SleepDone(w) /\ UNCHANGED notJobs)
          /\ WF_vars(WorkerStop(w) /\ UNCHANGED notJobs)

----------------------------------------------------------------------------
(* handlers::images::upload_image: every request builds its own            *)
(* ImageProcessor, with its own channel and max_workers workers, and       *)
(* queues its one job there.                                               *)

\* ImageProcessor::new and queue_processing_job of request u
UploadQueuesJob(u) ==
    /\ upload[u].status = "none"
    /\ upload' = [upload EXCEPT ![u].status = "Queued"]
    /\ UNCHANGED notUpload

\* worker w of the ImageProcessor of request u receives its job
UploadRecv(u, w) ==
    /\ upload[u].status = "Queued"
    /\ upload' = [upload EXCEPT ![u] = [status |-> "Processing", worker |-> w]]
    /\ UNCHANGED notUpload

\* process_job returns: Completed on Ok, Retrying after the first Err
UploadProcessed(u, ok) ==
    /\ upload[u].status = "Processing"
    /\ upload' = [upload EXCEPT
                    ![u].status = IF ok THEN "Completed" ELSE "Retrying"]
    /\ UNCHANGED notUpload

InitUploads == InitJobs

NextUploads ==
    \/ \E u \in Uploads : UploadQueuesJob(u)
    \/ \E u \in Uploads, w \in Workers : UploadRecv(u, w)
    \/ \E u \in Uploads, ok \in BOOLEAN : UploadProcessed(u, ok)

SpecUploads == InitUploads /\ [][NextUploads]_vars

----------------------------------------------------------------------------
(* admin_rate_limit_middleware handling the requests of one administrator, *)
(* one at a time.  Its limits are 200, 5000 and 50000 requests per minute, *)
(* hour and day, each refilled at its capacity per minute; the model keeps *)
(* their order and the refill rule on small numbers.                       *)

AdminLimits == [minute |-> 1, hour |-> 2, day |-> 3]

\* One iteration of the loop over admin_limits on the outcome r of the
\* check of window w: Ok and denied returns 429, Ok and allowed and Err go
\* on to the next window; after the loop the handler runs.
AdmLoopStep(w, r) ==
    IF r = "denied" THEN [pc |-> "done", outcome |-> "429"]
    ELSE IF w = "day" THEN [pc |-> "done", outcome |-> "forwarded"]
    ELSE [pc |-> NextWindow(w), outcome |-> "none"]

\* a request of the administrator arrives
AdmStart ==
    /\ adm.pc \in {"idle", "done"}
    /\ adm' = [pc |-> "minute", outcome |-> "none",
               checks |-> [w \in Windows |-> "none"],
               before |-> bucket, at |-> clock]
    /\ UNCHANGED <<storeVars, notAdm>>

\* check_rate_limit(user.id, w, capacity, capacity) returns Ok
AdmCheckOk(w) ==
    /\ adm.pc = w
    /\ redisUp
    /\ LET reply == ScriptReply(bucket[w], AdminLimits[w], AdminLimits[w],
                                clock, Requested)
           r == IF ToResult(reply, AdminLimits[w], clock).allowed
                  THEN "allowed" ELSE "denied"
           step == AdmLoopStep(w, r)
       IN  /\ bucket' = [bucket EXCEPT ![w] = ScriptWrite(reply, clock, clock)]
           /\ tomb' = [tomb EXCEPT ![w] = Missing]
           /\ adm' = [adm EXCEPT !.pc = step.pc, !.outcome = step.outcome,
                                 !.checks[w] = r]
    /\ UNCHANGED <<clock, ticks, redisUp, usage, wiped, notAdm>>

\* check_rate_limit returns Err: the warning is logged
AdmCheckErr(w) ==
    /\ adm.pc = w
    /\ ~redisUp
    /\ LET step == AdmLoopStep(w, "error")
       IN  adm' = [adm EXCEPT !.pc = step.pc, !.outcome = step.outcome,
                              !.checks[w] = "error"]
    /\ UNCHANGED <<storeVars, notAdm>>

InitAdmin == InitJobs

NextAdmin ==
    \/ \E d \in MwSteps : Tick(d) /\ UNCHANGED <<adm, notAdm>>
    \/ StoreDown /\ UNCHANGED <<adm, notAdm>>
    \/ StoreUp /\ UNCHANGED <<adm, notAdm>>
    \/ AdmStart
    \/ \E w \in Windows : AdmCheckOk(w)
    \/ \E w \in Windows : AdmCheckErr(w)

SpecAdmin == InitAdmin /\ [][NextAdmin]_vars

----------------------------------------------------------------------------
(* Sessions of RedisService (services/redis.rs): one session id, stored,   *)
(* read by concurrent get_session calls and deleted.  A get_session is a   *)
(* GET followed by a SET; the SET carries no expiry, and a Redis SET       *)
(* without one discards the time to live the key had.                      *)

UserIds == {1, 2}
SessionTtls == {1, 2}

SessionExpired(s, t) == s.present /\ s.ttl /\ t >= s.expire_at

\* conn.set_ex(&key, serialized, ttl.as_secs())
StoreSession(user_id, ttl) ==
    /\ session' = [present |-> TRUE, user_id |-> user_id,
                   last_accessed |-> clock, ttl |-> TRUE,
                   expire_at |-> clock + ttl]
    /\ shist' = [stored |-> TRUE, at |-> clock, ttl |-> ttl, deleted |-> FALSE]
    /\ UNCHANGED sget

\* conn.set(&key, updated): the key holds the new value and has no expiry
SetPlain(s, data, now) ==
    [present |-> TRUE, user_id |-> data.user_id, last_accessed |-> now,
     ttl |-> FALSE, expire_at |-> 0]

\* conn.get(&key); None returns Ok(None) at once
GetSessionRead(t) ==
    /\ sget[t].pc # "read"
    /\ sget' = [sget EXCEPT ![t] =
                  IF session.present
                    THEN [pc |-> "read", data |-> session, result |-> 0]
                    ELSE [pc |-> "done", data |-> NoSession, result |-> 0]]
    /\ UNCHANGED <<session, shist>>

\* last_accessed = now; conn.set(&key, updated); Ok(Some(user_id))
GetSessionWrite(t) ==
    /\ sget[t].pc = "read"
    /\ session' = SetPlain(session, sget[t].data, clock)
    /\ sget' = [sget EXCEPT ![t].pc = "done", ![t].result = sget[t].data.user_id]
    /\ UNCHANGED shist

\* conn.del(&key)
DeleteSession ==
    /\ session' = NoSession
    /\ shist' = [shist EXCEPT !.deleted = TRUE]
    /\ UNCHANGED sget

\* a second passes; the store removes a key whose time to live is over
SessionTick ==
    /\ Tick(1)
    /\ session' = IF SessionExpired(session, clock + 1) THEN NoSession ELSE session
    /\ UNCHANGED <<sget, shist>>

\* every variable of the other components, at rest
NoAdmission ==
    /\ clock = 0
    /\ ticks = 0
    /\ redisUp = TRUE
    /\ bucket = [w \in Windows |-> Missing]
    /\ tomb = [w \in Windows |-> Missing]
    /\ call = [t \in Tasks |-> IdleCall]
    /\ given = NoGiven
    /\ hist = <<>>
    /\ limits = NoLimits
    /\ mw = IdleMw
    /\ usage = [k \in Kinds |-> NoCounter]
    /\ wiped = {}
    /\ usage0 = 0
    /\ rec = [t \in Recorders |-> IdleRec]
    /\ qlimits = NoQuotaLimits
    /\ images = [i \in ImageSlots |-> 0]
    /\ quota = IdleQuota
    /\ qmw = IdleQmw
    /\ NoJobs
    /\ upload = [u \in Uploads |-> NoUpload]
    /\ adm = IdleAdm

notSession == <<redisUp, limiterVars, mwVars, recVars, quotaVars, jobVars, upload, adm,
                uq, zkey, zcall, zlog, zgiven, pub, procVars, cacheVars>>

InitSessions == NoAdmission /\ NoSvc

NextSessions ==
    \/ \E user_id \in UserIds, ttl \in SessionTtls :
          StoreSession(user_id, ttl)
            /\ UNCHANGED <<clock, ticks, bucket, tomb, usage, wiped, notSession>>
    \/ \E t \in Getters : GetSessionRead(t)
            /\ UNCHANGED <<clock, ticks, bucket, tomb, usage, wiped, notSession>>
    \/ \E t \in Getters : GetSessionWrite(t)
            /\ UNCHANGED <<clock, ticks, bucket, tomb, usage, wiped, notSession>>
    \/ DeleteSession
            /\ UNCHANGED <<clock, ticks, bucket, tomb, usage, wiped, notSession>>
    \/ SessionTick /\ UNCHANGED notSession

SpecSessions == InitSessions /\ [][NextSessions]_vars

----------------------------------------------------------------------------
(* Concurrent uploads of one API key: each task calls check_upload_quota   *)
(* and, when allowed, record_upload.  The file size is checked, the two    *)
(* counters are read and the two queries run, each at its own await; the   *)
(* store and the database answer throughout.                               *)

UqStart(t, file_size) ==
    /\ uq[t].pc = "idle"
    /\ uq' = [uq EXCEPT ![t] =
                [pc |-> "daily", file_size |-> file_size,
                 violations |->
                    Push(<<>>, file_size > qlimits.max_image_size_bytes,
                         "FileSizeExceeded", file_size,
                         qlimits.max_image_size_bytes),
                 current_usage |-> NoUsage, allowed |-> FALSE]]
    /\ UNCHANGED <<storeVars, recVars>>

UqDaily(t) ==
    /\ uq[t].pc = "daily"
    /\ LET v == UnwrapOr0(redisUp, GetUsageCounter(usage["daily_uploads"]))
       IN  uq' = [uq EXCEPT
                    ![t].pc = "monthly",
                    ![t].current_usage.daily_uploads = v,
                    ![t].violations =
                       Push(@, v >= qlimits.daily_limit,
                            "DailyUploadsExceeded", v, qlimits.daily_limit)]
    /\ UNCHANGED <<storeVars, recVars>>

UqMonthly(t) ==
    /\ uq[t].pc = "monthly"
    /\ LET v == UnwrapOr0(redisUp, GetUsageCounter(usage["monthly_uploads"]))
       IN  uq' = [uq EXCEPT
                    ![t].pc = "count",
                    ![t].current_usage.monthly_uploads = v,
                    ![t].violations =
                       Push(@, v >= qlimits.monthly_limit,
                            "MonthlyUploadsExceeded", v, qlimits.monthly_limit)]
    /\ UNCHANGED <<storeVars, recVars>>

UqCount(t) ==
    /\ uq[t].pc = "count"
    /\ LET v == ImageCount(images)
       IN  uq' = [uq EXCEPT
                    ![t].pc = "storage",
                    ![t].current_usage.image_count = v,
                    ![t].violations =
                       Push(@, v >= qlimits.max_images,
                            "ImageCountExceeded", v, qlimits.max_images)]
    /\ UNCHANGED <<storeVars, recVars>>

UqStorage(t) ==
    /\ uq[t].pc = "storage"
    /\ LET v == StorageUsed(images)
           vs == Push(uq[t].violations,
                      v + uq[t].file_size > MaxStorage(qlimits),
                      "StorageExceeded", v + uq[t].file_size,
                      MaxStorage(qlimits))
       IN  uq' = [uq EXCEPT
                    ![t].pc = "done",
                    ![t].current_usage.storage_used = v,
                    ![t].violations = vs,
                    ![t].allowed = (vs = <<>>)]
    /\ UNCHANGED <<storeVars, recVars>>

\* the upload was allowed: record_upload(file_size) is called
UploadRecord(t) ==
    /\ uq[t].pc = "done"
    /\ uq[t].allowed
    /\ uq' = [uq EXCEPT ![t].pc = "recorded"]
    /\ RecordStart(t, "upload", uq[t].file_size)

\* daily_limit uploads a day, and a monthly limit that is not reached
OverQuotaLimits ==
    {l \in [daily_limit : 1..MaxLimit, monthly_limit : 1..(MaxLimit + 3),
            max_images : {2}, max_image_size_bytes : {1, 2}] :
        l.monthly_limit = l.daily_limit + 3}

notUq == <<limiterVars, mwVars, quotaVars, jobVars, upload, adm, session, sget, shist,
           zkey, zcall, zlog, zgiven, pub, procVars, cacheVars>>

InitOverQuota ==
    /\ clock = 0
    /\ ticks = 0
    /\ redisUp = TRUE
    /\ bucket = [w \in Windows |-> Missing]
    /\ tomb = [w \in Windows |-> Missing]
    /\ call = [t \in Tasks |-> IdleCall]
    /\ given = NoGiven
    /\ hist = <<>>
    /\ limits = NoLimits
    /\ mw = IdleMw
    /\ wiped = {}
    /\ usage0 = 0
    /\ qlimits \in OverQuotaLimits
    /\ \E d \in 0..MaxLimit : d <= qlimits.daily_limit /\ usage = DrawnUsage(d, d)
    /\ rec = [t \in Recorders |-> IdleRec]
    /\ images = [i \in ImageSlots |-> 0]
    /\ quota = IdleQuota
    /\ qmw = IdleQmw
    /\ NoJobs
    /\ upload = [u \in Uploads |-> NoUpload]
    /\ adm = IdleAdm
    /\ NoSvc

NextOverQuota ==
    \/ \E t \in Recorders, file_size \in ImageSizes :
          UqStart(t, file_size) /\ UNCHANGED notUq
    \/ \E t \in Recorders : UqDaily(t) /\ UNCHANGED notUq
    \/ \E t \in Recorders : UqMonthly(t) /\ UNCHANGED notUq
    \/ \E t \in Recorders : UqCount(t) /\ UNCHANGED notUq
    \/ \E t \in Recorders : UqStorage(t) /\ UNCHANGED notUq
    \/ \E t \in Recorders : UploadRecord(t) /\ UNCHANGED notUq
    \/ \E t \in Recorders : Incr(t) /\ UNCHANGED <<uq, notUq>>
    \/ \E t \in Recorders : ExpireStep(t) /\ UNCHANGED <<uq, notUq>>
    \/ \E t \in Recorders : DbUpdate(t) /\ UNCHANGED <<uq, notUq>>

SpecOverQuota == InitOverQuota /\ [][NextOverQuota]_vars

----------------------------------------------------------------------------
(* RateLimiter::reset_rate_limit among check_rate_limit calls: the three   *)
(* buckets of the key and its usage counters exist from the start; the     *)
(* store answers throughout and no time passes.                            *)

\* every bucket of the key deleted at once
ResetEveryWindow(limit_type) ==
    /\ redisUp
    /\ bucket' = [w \in Windows |-> Missing]
    /\ tomb' = [w \in Windows |-> Missing]
    /\ UNCHANGED <<clock, ticks, redisUp, usage, wiped>>

\* conn.del(&key) on rate_limit:<api_key_id>:<limit_type>
ResetRateLimit(limit_type) ==
    /\ redisUp
    /\ bucket' = [bucket EXCEPT ![limit_type] = Missing]
    /\ tomb' = [tomb EXCEPT ![limit_type] = Missing]
    /\ UNCHANGED <<clock, ticks, redisUp, usage, wiped>>

InitReset ==
    /\ clock = 0
    /\ ticks = 0
    /\ redisUp = TRUE
    /\ tomb = [w \in Windows |-> Missing]
    /\ call = [t \in Tasks |-> IdleCall]
    /\ hist = <<>>
    /\ limits = NoLimits
    /\ mw = IdleMw
    /\ usage = [k \in Kinds |-> StartCounter(1)]
    /\ wiped = {}
    /\ usage0 = 1
    /\ rec = [t \in Recorders |-> IdleRec]
    /\ qlimits = NoQuotaLimits
    /\ images = [i \in ImageSlots |-> 0]
    /\ quota = IdleQuota
    /\ qmw = IdleQmw
    /\ NoJobs
    /\ upload = [u \in Uploads |-> NoUpload]
    /\ adm = IdleAdm
    /\ NoSvc
    /\ \E c \in Caps, r \in Rates, tokens0 \in Caps :
         /\ tokens0 <= c
         /\ given = [capacity |-> c, refill_rate |-> r, tokens0 |-> tokens0]
         /\ bucket = [w \in Windows |-> RaceBucket(tokens0)]

NextReset ==
    \/ \E t \in Callers :
          Begin(t, given.capacity, given.refill_rate)
            /\ UNCHANGED <<given, hist, notLimiter>>
    \/ \E t \in Callers : Invoke(t) /\ UNCHANGED <<given, hist, notLimiter>>
    \/ \E w \in Windows :
          ResetRateLimit(w) /\ UNCHANGED <<limiterVars, notLimiter>>

SpecReset == InitReset /\ [][NextReset]_vars

----------------------------------------------------------------------------
(* RedisService::check_rate_limit (services/redis.rs): sliding-window      *)
(* admission on a sorted set.  The caller samples now, then the script     *)
(* runs atomically.  The member it adds is "<now>:<math.random()>"; what   *)
(* math.random() returns is the server's choice, and two invocations can   *)
(* get the same value (a server that seeds the generator of every script   *)
(* alike always gives the same one).                                       *)

Randoms == {1, 2}
SlidingWindows == {2}

\* ZREMRANGEBYSCORE key -inf window_start
ZRemRangeByScore(members, window_start) ==
    {e \in members : e[1] > window_start}

\* ZADD key now "<now>:<random>": an existing member is not added again
ZAdd(members, now, random) == members \cup {<<now, random>>}

\* let now = chrono::Utc::now().timestamp()
ZBegin(t) ==
    /\ zcall[t].pc # "called"
    /\ Len(zlog) + Cardinality({u \in Callers : zcall[u].pc = "called"}) < MaxCap + 2
    /\ zcall' = [zcall EXCEPT ![t] = [pc |-> "called", now |-> clock,
                                     allowed |-> FALSE]]
    /\ UNCHANGED <<zkey, zlog, zgiven>>

\* the script runs and the call returns Ok(result[0] == 1)
ZInvoke(t, random) ==
    /\ zcall[t].pc = "called"
    /\ LET now == zcall[t].now
           kept == ZRemRangeByScore(zkey.members, now - zgiven.window)
           current == Cardinality(kept)
           allowed == current < zgiven.limit
       IN  /\ zkey' = IF allowed
                        THEN [members |-> ZAdd(kept, now, random),
                              present |-> TRUE,
                              expire_at |-> clock + zgiven.window]
                        ELSE [zkey EXCEPT !.members = kept,
                                          !.present = kept # {}]
           /\ zcall' = [zcall EXCEPT ![t].pc = "ok", ![t].allowed = allowed]
           /\ zlog' = Append(zlog, <<now, allowed>>)
    /\ UNCHANGED zgiven

\* a second passes; the store removes the sorted set when its EXPIRE is over
ZTick ==
    /\ Tick(1)
    /\ zkey' = IF zkey.present /\ clock + 1 >= zkey.expire_at THEN NoZset ELSE zkey
    /\ UNCHANGED <<zcall, zlog, zgiven>>

notZ == <<redisUp, limiterVars, mwVars, recVars, quotaVars, jobVars, upload, adm,
          session, sget, shist, uq, pub, procVars, cacheVars>>

InitSliding ==
    /\ NoAdmission
    /\ session = NoSession
    /\ sget = [t \in Getters |-> IdleGet]
    /\ shist = NoStore
    /\ uq = [t \in Recorders |-> IdleQuota]
    /\ zkey = NoZset
    /\ zcall = [t \in Callers |-> IdleZcall]
    /\ zlog = <<>>
    /\ pub = IdlePub
    /\ NoProcessing
    /\ pgiven = NoJobInput
    /\ NoCache
    /\ \E limit \in 1..MaxLimit, window \in SlidingWindows :
          zgiven = [limit |-> limit, window |-> window]

NextSliding ==
    \/ \E t \in Callers : ZBegin(t)
          /\ UNCHANGED <<clock, ticks, bucket, tomb, usage, wiped, notZ>>
    \/ \E t \in Callers, random \in Randoms : ZInvoke(t, random)
          /\ UNCHANGED <<clock, ticks, bucket, tomb, usage, wiped, notZ>>
    \/ ZTick /\ UNCHANGED notZ

SpecSliding == InitSliding /\ [][NextSliding]_vars

----------------------------------------------------------------------------
(* public_rate_limit_middleware for the requests of one client IP.  Its    *)
(* limits are 10 a minute and 100 an hour, each given to check_rate_limit  *)
(* as capacity and as refill_rate; the model keeps the order of the two    *)
(* and scales them to 1 and 2.                                             *)

PublicLimits == [minute |-> 1, hour |-> 2]

\* One iteration of the loop over public_limits on the outcome r of the
\* check of window w: Ok and denied returns 429, Ok and allowed and Err go
\* on to the next window; after the loop the handler runs.
PubLoopStep(w, r) ==
    IF r = "denied" THEN [pc |-> "done", outcome |-> "429"]
    ELSE IF w = "hour" THEN [pc |-> "done", outcome |-> "forwarded"]
    ELSE [pc |-> "hour", outcome |-> "none"]

\* a request of the client arrives
PubStart ==
    /\ pub.pc \in {"idle", "done"}
    /\ pub' = [pub EXCEPT !.pc = "minute", !.outcome = "none"]
    /\ UNCHANGED storeVars

\* check_rate_limit(ip_uuid, w, capacity, capacity) returns Ok
PubCheckOk(w) ==
    /\ pub.pc = w
    /\ redisUp
    /\ LET reply == ScriptReply(bucket[w], PublicLimits[w], PublicLimits[w],
                                clock, Requested)
           r == IF ToResult(reply, PublicLimits[w], clock).allowed
                  THEN "allowed" ELSE "denied"
           step == PubLoopStep(w, r)
       IN  /\ bucket' = [bucket EXCEPT ![w] = ScriptWrite(reply, clock, clock)]
           /\ tomb' = [tomb EXCEPT ![w] = Missing]
           /\ pub' = [pc |-> step.pc, outcome |-> step.outcome,
                      admitted |-> IF step.outcome = "forwarded"
                                     THEN pub.admitted \cup {clock}
                                     ELSE pub.admitted]
    /\ UNCHANGED <<clock, ticks, redisUp, usage, wiped>>

\* check_rate_limit returns Err: the warning is logged
PubCheckErr(w) ==
    /\ pub.pc = w
    /\ ~redisUp
    /\ LET step == PubLoopStep(w, "error")
       IN  pub' = [pc |-> step.pc, outcome |-> step.outcome,
                   admitted |-> IF step.outcome = "forwarded"
                                  THEN pub.admitted \cup {clock}
                                  ELSE pub.admitted]
    /\ UNCHANGED storeVars

notPub == <<limiterVars, mwVars, recVars, quotaVars, jobVars, upload, adm,
            session, sget, shist, uq, zkey, zcall, zlog, zgiven, procVars,
            cacheVars>>

InitPublic == NoAdmission /\ NoSvc

NextPublic ==
    \/ \E d \in MwSteps : Tick(d) /\ UNCHANGED <<pub, notPub>>
    \/ StoreDown /\ UNCHANGED <<pub, notPub>>
    \/ StoreUp /\ UNCHANGED <<pub, notPub>>
    \/ PubStart /\ UNCHANGED notPub
    \/ \E w \in {"minute", "hour"} : PubCheckOk(w) /\ UNCHANGED notPub
    \/ \E w \in {"minute", "hour"} : PubCheckErr(w) /\ UNCHANGED notPub

SpecPublic == InitPublic /\ [][NextPublic]_vars

----------------------------------------------------------------------------
(* ImageProcessor::process_job run again and again for one image: by a     *)
(* retry of the same job or by a job of a later queue_processing_job call  *)
(* with the same arguments.  A path or URL built by format! is the tuple   *)
(* of its parts; a run writes its outputs in order and returns at the      *)
(* first step that fails.                                                  *)

ImageIds == {1, 2}
SizeLists == {<<>>, <<1>>, <<2>>, <<1, 2>>, <<2, 1>>, <<1, 1>>}

\* an output directory named after the job
OutputDirPerJob(image_id, job_id) == <<"processed", job_id>>

\* let output_dir = format!("processed/{}", image_id)
OutputDir(image_id, job_id) == <<"processed", image_id>>

\* the outputs of process_job in the order it makes them: path and url
RECURSIVE Sized(_, _, _, _)
Sized(output_dir, image_id, name, sizes) ==
    IF sizes = <<>> THEN <<>>
    ELSE <<[path |-> <<output_dir, name, Head(sizes)>>,
            url |-> <<"/v1/images", image_id, name, Head(sizes)>>]>>
           \o Sized(output_dir, image_id, name, Tail(sizes))

Outputs(j, input) ==
    Sized(j.output_dir, j.image_id, "thumb", input.thumbnail_sizes)
      \o Sized(j.output_dir, j.image_id, "custom", input.custom_sizes)
      \o <<[path |-> <<j.output_dir, "optimized.webp">>,
            url |-> <<"/v1/images", j.image_id, "optimized.webp">>],
           [path |-> <<j.output_dir, "optimized.avif">>,
            url |-> <<"/v1/images", j.image_id, "optimized.avif">>]>>

\* queue_processing_job(image_id, original_path, thumbnail_sizes, custom_sizes)
QueueJob ==
    /\ prun.pc # "running"
    /\ pjob.id < MaxJobs
    /\ pjob' = [id |-> pjob.id + 1, image_id |-> pgiven.image_id,
                output_dir |-> OutputDir(pgiven.image_id, pjob.id + 1)]
    /\ UNCHANGED <<pgiven, prun, pfiles, preturned>>

\* process_job(config, job) is called: let mut variants = Vec::new()
ProcessStart ==
    /\ pjob.id > 0
    /\ prun.pc # "running"
    /\ prun.run <= MaxRetries
    /\ prun' = [pc |-> "running", idx |-> 1, variants |-> <<>>,
                run |-> prun.run + 1]
    /\ UNCHANGED <<pgiven, pjob, pfiles, preturned>>

\* one output is written, replacing the file of that path, and pushed
ProcessWrite ==
    /\ prun.pc = "running"
    /\ prun.idx <= Len(Outputs(pjob, pgiven))
    /\ LET out == Outputs(pjob, pgiven)[prun.idx]
       IN  /\ pfiles' = {f \in pfiles : f.path # out.path}
                           \cup {[path |-> out.path, run |-> prun.run]}
           /\ prun' = [prun EXCEPT !.idx = @ + 1,
                                   !.variants = Append(@, out.url)]
    /\ UNCHANGED <<pgiven, pjob, preturned>>

\* a step of the run fails: the ? returns Err
ProcessFail ==
    /\ prun.pc = "running"
    /\ prun.idx <= Len(Outputs(pjob, pgiven))
    /\ prun' = [prun EXCEPT !.pc = "err"]
    /\ UNCHANGED <<pgiven, pjob, pfiles, preturned>>

\* Ok(variants)
ProcessReturn ==
    /\ prun.pc = "running"
    /\ prun.idx > Len(Outputs(pjob, pgiven))
    /\ prun' = [prun EXCEPT !.pc = "ok"]
    /\ preturned' = Append(preturned, prun.variants)
    /\ UNCHANGED <<pgiven, pjob, pfiles>>

notProc == <<storeVars, limiterVars, mwVars, recVars, quotaVars, jobVars, upload,
             adm, session, sget, shist, uq, zkey, zcall, zlog, zgiven, pub,
             cacheVars>>

InitProcess ==
    /\ NoAdmission
    /\ session = NoSession
    /\ sget = [t \in Getters |-> IdleGet]
    /\ shist = NoStore
    /\ uq = [t \in Recorders |-> IdleQuota]
    /\ zkey = NoZset
    /\ zcall = [t \in Callers |-> IdleZcall]
    /\ zlog = <<>>
    /\ zgiven = [limit |-> 0, window |-> 0]
    /\ pub = IdlePub
    /\ NoCache
    /\ NoProcessing
    /\ pgiven \in [image_id : ImageIds, thumbnail_sizes : SizeLists,
                   custom_sizes : {<<>>, <<1>>}]

NextProcess ==
    \/ QueueJob /\ UNCHANGED notProc
    \/ ProcessStart /\ UNCHANGED notProc
    \/ ProcessWrite /\ UNCHANGED notProc
    \/ ProcessFail /\ UNCHANGED notProc
    \/ ProcessReturn /\ UNCHANGED notProc

SpecProcess == InitProcess /\ [][NextProcess]_vars

----------------------------------------------------------------------------
(* The cache of transformed images of RedisService (services/redis.rs):    *)
(* the strings transform:<cache_key> and the sorted set transform:lru,     *)
(* whose scores are timestamps in whole seconds.  Cache keys are numbered  *)
(* in the lexicographic order of their names, the order in which a sorted  *)
(* set ranks members of equal score.  max_entries, 10000 in the code, is   *)
(* MaxEntries here.                                                        *)

CacheTtls == {1, 2}

Members(index) == {k \in CacheKeys : index[k] >= 0}

\* the number of members ZRANGE lists before k
Rank(index, k) ==
    Cardinality({j \in Members(index) :
                    \/ index[j] < index[k]
                    \/ index[j] = index[k] /\ j < k})

\* conn.zrange(lru_key, 0, to_remove - 1)
ZRange(index, to_remove) ==
    {k \in Members(index) : Rank(index, k) < to_remove}

\* the keys cleanup_transform_cache removes
OldKeys(index) ==
    IF Cardinality(Members(index)) > MaxEntries
      THEN ZRange(index, Cardinality(Members(index)) - MaxEntries)
      ELSE {}

\* seq without the elements of S
RECURSIVE Without(_, _)
Without(seq, S) ==
    IF seq = <<>> THEN <<>>
    ELSE IF Head(seq) \in S THEN Without(Tail(seq), S)
    ELSE <<Head(seq)>> \o Without(Tail(seq), S)

\* k becomes the most recently used key
Touch(seq, k) == Append(Without(seq, {k}), k)

\* cache_transformed_image: set_ex, zadd with the present second, and
\* cleanup_transform_cache
CacheTransformedImage(k, ttl) ==
    LET added == [lru EXCEPT ![k] = clock]
        old_keys == OldKeys(added)
    IN  /\ lru' = [j \in CacheKeys |-> IF j \in old_keys THEN -1 ELSE added[j]]
        /\ tdata' = [j \in CacheKeys |->
                        IF j \in old_keys THEN NoData
                        ELSE IF j = k
                          THEN [present |-> TRUE, expire_at |-> clock + ttl]
                        ELSE tdata[j]]
        /\ recency' = Without(Touch(recency, k), old_keys)

\* get_cached_transformed_image: a hit updates the score, a miss does not
GetCachedTransformedImage(k) ==
    /\ lru' = IF tdata[k].present THEN [lru EXCEPT ![k] = clock] ELSE lru
    /\ recency' = IF tdata[k].present THEN Touch(recency, k) ELSE recency
    /\ UNCHANGED tdata

\* a second passes; the store removes the strings whose time to live is over
CacheTick ==
    /\ Tick(1)
    /\ tdata' = [k \in CacheKeys |->
                    IF tdata[k].present /\ clock + 1 >= tdata[k].expire_at
                      THEN NoData ELSE tdata[k]]
    /\ UNCHANGED <<lru, recency>>

notCache == <<redisUp, limiterVars, mwVars, recVars, quotaVars, jobVars, upload, adm,
              session, sget, shist, uq, zkey, zcall, zlog, zgiven, pub, procVars>>

InitCache == NoAdmission /\ NoSvc

NextCache ==
    \/ \E k \in CacheKeys, ttl \in CacheTtls : CacheTransformedImage(k, ttl)
          /\ UNCHANGED <<clock, ticks, bucket, tomb, usage, wiped, notCache>>
    \/ \E k \in CacheKeys : GetCachedTransformedImage(k)
          /\ UNCHANGED <<clock, ticks, bucket, tomb, usage, wiped, notCache>>
    \/ CacheTick /\ UNCHANGED notCache

SpecCache == InitCache /\ [][NextCache]_vars

----------------------------------------------------------------------------
\* C1: after every check_rate_limit call the stored token count and the
\* remaining value returned are between 0 and the capacity of the call.
C1_TokensWithinCapacity ==
    \A t \in Tasks :
        call[t].pc = "ok" =>
            /\ 0 <= call[t].reply[2]
            /\ call[t].reply[2] <= call[t].capacity
            /\ U32Leq(call[t].result.remaining_tokens, call[t].capacity)

\* C2: of the calls that race for a bucket holding exactly one token, exactly
\* one is allowed: the first whose script runs; every other one is denied.
C2_LastTokenOnce ==
    LET done == {t \in Tasks : call[t].pc = "ok"}
        allowed == {t \in done : call[t].result.allowed}
    IN  given.tokens0 = 1 /\ done # {} => Cardinality(allowed) = 1

\* three calls raced for one token: one was allowed and two were denied
C2_Witness ==
    /\ given.tokens0 = 1
    /\ \A t \in Tasks : call[t].pc = "ok"
    /\ Cardinality({t \in Tasks : call[t].result.allowed}) = 1

\* C4: from a full bucket with capacity = refill = c, the i-th call at the
\* first instant t0 is allowed exactly when i <= c; once c + 1 calls were made
\* at t0 and no call in the 60 seconds after it, the j-th call at t0 + 60 is
\* allowed exactly when j <= c.
C4_BurstThenRefill ==
    hist # <<>> =>
        LET c == given.capacity
            t0 == hist[1][1]
            n0 == Cardinality({i \in 1..Len(hist) : hist[i][1] = t0})
        IN  \A i \in 1..Len(hist) :
                /\ hist[i][1] = t0 => (hist[i][2] <=> i <= c)
                /\ ( /\ hist[i][1] = t0 + 60
                     /\ n0 >= c + 1
                     /\ \A k \in 1..i : hist[k][1] \in {t0, t0 + 60} )
                   => (hist[i][2] <=> i - n0 <= c)

\* the spec's case: 5 calls allowed and the 6th denied, then after 60 s
\* 5 more allowed and the next denied
C4_Witness ==
    /\ given.capacity = 5
    /\ Len(hist) = 12
    /\ \A i \in 1..6 : hist[i][1] = hist[1][1]
    /\ \A i \in 7..12 : hist[i][1] = hist[1][1] + 60
    /\ \A i \in 1..12 : hist[i][2] <=> i \notin {6, 12}

FloorDiv60(n) == n \div 60

\* C5: with t the token count after refill, a call that finds t >= 1 is
\* allowed, stores t - 1 and reports remaining = t - 1; a call that finds
\* t < 1 is denied and stores t.
C5_CheckAndConsume ==
    [][\A c \in Callers : Invoke(c) =>
        LET b == bucket["minute"]
            a == call[c]
            stored == IF b.present THEN b.tokens ELSE a.capacity
            elapsed == IF b.present THEN a.now - b.last_refill ELSE 0
            t == Min(a.capacity, stored + FloorDiv60(elapsed * a.refill_rate))
        IN  IF t >= 1
              THEN /\ call'[c].result.allowed
                   /\ bucket'["minute"].tokens = t - 1
                   /\ call'[c].result.remaining_tokens = [hi |-> 0, lo |-> t - 1]
              ELSE /\ ~call'[c].result.allowed
                   /\ bucket'["minute"].tokens = t
    ]_vars

\* one call was allowed and another one was denied
C5_Witness ==
    \E c, d \in Callers :
        /\ call[c].pc = "ok" /\ call[c].result.allowed
        /\ call[d].pc = "ok" /\ ~call[d].result.allowed
        /\ call[d].capacity > 0

\* C3: a request is forwarded to the handler only if each of the three
\* windows was checked and allowed it, or its check failed.
C3_AllWindowsChecked ==
    mw.outcome = "forwarded" =>
        \A w \in Windows : mw.checks[w] \in {"allowed", "error"}

\* C6: a check made while the store is unreachable is an error and changes
\* no bucket; a request is answered 429 only when a window denied it, and a
\* request whose three checks failed is forwarded.
C6_FailOpen ==
    /\ [](mw.outcome = "429" => \E w \in Windows : mw.checks[w] = "denied")
    /\ []((mw.pc = "done" /\ \A w \in Windows : mw.checks[w] = "error")
            => mw.outcome = "forwarded")
    /\ [][\A w \in Windows :
            (mw.pc = w /\ ~redisUp /\ mw' # mw) =>
                /\ mw'.checks[w] = "error"
                /\ mw'.outcome # "429"
                /\ bucket' = bucket]_vars

\* the three checks of a request failed and it was forwarded
C6_Witness ==
    /\ mw.pc = "done"
    /\ \A w \in Windows : mw.checks[w] = "error"
    /\ mw.outcome = "forwarded"

\* C7: the first check of a key that its TTL removed answers as the check of
\* the retained hash would have answered: same allowed, same remaining.
C7_ExpirySafe ==
    [][\A w \in Windows :
        (MwCheckOk(w) /\ ~bucket[w].present /\ tomb[w].present) =>
            LET c == RateChecks(limits)[w]
                kept == ScriptReply(tomb[w], c.capacity, c.refill_rate, clock,
                                    Requested)
            IN  /\ (mw'.checks[w] = "allowed") <=> (kept[1] = 1)
                /\ bucket'[w].tokens = kept[2]
    ]_vars

----------------------------------------------------------------------------
\* the increment_usage_counter calls of task t whose INCRBY has been answered
Answered(t) ==
    LET r == rec[t]
        n == Len(Increments(r.op, r.amount))
    IN  IF r.pc = "idle" THEN 0
        ELSE IF r.pc = "incr" THEN r.idx - 1
        ELSE IF r.pc = "expire" THEN r.idx
        ELSE IF r.pc = "err" /\ r.at = "incr" THEN r.idx - 1
        ELSE IF r.pc = "err" /\ r.at = "expire" THEN r.idx
        ELSE n

\* what the answered INCRBYs of task t have added to counter k
AddedBy(t, k) ==
    LET incs == Increments(rec[t].op, rec[t].amount)
        hits == {i \in 1..Answered(t) : incs[i][1] = k}
    IN  IF hits = {} THEN 0 ELSE incs[CHOOSE i \in hits : TRUE][2]

\* C8: as long as a counter has neither expired nor been reset, it holds
\* its initial value plus the amounts of all the increments answered so
\* far, whatever the interleaving of the tasks: no increment is lost.
C8_NoLostIncrement ==
    \A k \in Kinds :
        k \notin wiped =>
            GetUsageCounter(usage[k]) =
                usage0 + SumSizes([t \in Recorders |-> AddedBy(t, k)], Recorders)

\* two tasks have recorded uploads of different sizes on a counter that
\* held 1, and the counter was never wiped
C8_Witness ==
    /\ usage0 = 1
    /\ rec[1].pc = "ok" /\ rec[1].op = "upload" /\ rec[1].amount = 1
    /\ rec[2].pc = "ok" /\ rec[2].op = "upload" /\ rec[2].amount = 2
    /\ "daily_bytes" \notin wiped
    /\ GetUsageCounter(usage["daily_bytes"]) = 4

FailedConditions ==
    LET l == qlimits
        u == quota.current_usage
    IN  {v \in {"FileSizeExceeded", "DailyUploadsExceeded",
                "MonthlyUploadsExceeded", "ImageCountExceeded",
                "StorageExceeded"} :
            \/ v = "FileSizeExceeded"
                 /\ ~(quota.file_size <= l.max_image_size_bytes)
            \/ v = "DailyUploadsExceeded"
                 /\ ~(u.daily_uploads < l.daily_limit)
            \/ v = "MonthlyUploadsExceeded"
                 /\ ~(u.monthly_uploads < l.monthly_limit)
            \/ v = "ImageCountExceeded"
                 /\ ~(u.image_count < l.max_images)
            \/ v = "StorageExceeded"
                 /\ ~(u.storage_used + quota.file_size
                        <= l.max_image_size_bytes * l.max_images)}

\* C10: when check_upload_quota returns, allowed is true exactly when the
\* five conditions hold on the values it read, and violations has one
\* entry for each condition that fails and no other.
C10_AllowedIffAllPass ==
    quota.pc = "done" =>
        /\ quota.allowed <=> FailedConditions = {}
        /\ Len(quota.violations) = Cardinality(FailedConditions)
        /\ {quota.violations[i].violation_type :
                i \in 1..Len(quota.violations)} = FailedConditions

\* a call has returned with all five violations
C10_Witness ==
    /\ quota.pc = "done"
    /\ ~quota.allowed
    /\ Len(quota.violations) = 5

\* a call has returned allowed
C10_WitnessAllowed ==
    /\ quota.pc = "done"
    /\ quota.allowed
    /\ quota.current_usage.image_count > 0

\* the StorageExceeded entries of the violations of the call
StorageViolations ==
    {i \in 1..Len(quota.violations) :
        quota.violations[i].violation_type = "StorageExceeded"}

\* C11: when check_upload_quota returns and storage_used + file_size is
\* above max_image_size_bytes * max_images, allowed is false and there is
\* one StorageExceeded violation, with current_value = storage_used +
\* file_size and limit_value = the ceiling; when the sum is at or below the
\* ceiling there is no StorageExceeded violation.
C11_StorageExceeded ==
    quota.pc = "done" =>
        LET sum == quota.current_usage.storage_used + quota.file_size
            ceiling == qlimits.max_image_size_bytes * qlimits.max_images
        IN  IF sum > ceiling
              THEN /\ ~quota.allowed
                   /\ Cardinality(StorageViolations) = 1
                   /\ \A i \in StorageViolations :
                         /\ quota.violations[i].current_value = sum
                         /\ quota.violations[i].limit_value = ceiling
              ELSE StorageViolations = {}

\* a call has returned StorageExceeded as its only violation, one byte
\* above the ceiling
C11_Witness ==
    /\ quota.pc = "done"
    /\ Len(quota.violations) = 1
    /\ StorageViolations = {1}
    /\ quota.current_usage.storage_used > 0
    /\ quota.violations[1].current_value = quota.violations[1].limit_value + 1

\* C12: a step of check_upload_quota leaves every usage counter, every
\* rate-limit bucket and the image rows as they were.
C12_ReadOnly ==
    [][quota' # quota =>
          /\ usage' = usage
          /\ bucket' = bucket
          /\ images' = images]_vars

\* a call has returned while a counter and an image row existed
C12_Witness ==
    /\ quota.pc = "done"
    /\ usage["daily_uploads"].present
    /\ ImageCount(images) > 0
    /\ quota.current_usage.daily_uploads > 0
    /\ quota.current_usage.image_count > 0

\* C13: a call of check_upload_quota that returns allowed = true has not
\* let through a key whose daily or monthly upload counter in the store is
\* at its limit.
C13_FailClosed ==
    (quota.pc = "done" /\ quota.allowed) =>
        /\ GetUsageCounter(usage["daily_uploads"]) < qlimits.daily_limit
        /\ GetUsageCounter(usage["monthly_uploads"]) < qlimits.monthly_limit

\* the period a counter kind is named after
Period(k) ==
    IF k \in {"daily_uploads", "daily_bytes", "daily_bandwidth", "daily"}
      THEN DayTtl ELSE MonthTtl

\* C14: a counter that a completed record_upload or record_download has
\* incremented expires one period after a write: no earlier than 86400 s
\* (daily kinds) or 2592000 s (monthly kinds) after the start of time.
C14_ExpiresAtPeriodEnd ==
    \A t \in Recorders, k \in Kinds :
        (rec[t].pc = "ok" /\ AddedBy(t, k) > 0 /\ usage[k].present
            /\ usage[k].ttl)
          => usage[k].expire_at >= Period(k)

\* C15: a record_upload that has returned an error, alone on counters
\* that were never wiped, has left the four counters at their initial value.
C15_AllOrNothing ==
    \A t \in Recorders :
        (/\ rec[t].pc = "err"
         /\ rec[t].op = "upload"
         /\ \A o \in Recorders \ {t} : rec[o].pc = "idle"
         /\ wiped = {})
          => \A k \in {"daily_uploads", "monthly_uploads", "daily_bytes",
                       "monthly_bytes"} :
                GetUsageCounter(usage[k]) = usage0

----------------------------------------------------------------------------
InQueue(j) == \E i \in 1..Len(jobq) : jobq[i] = j
Holding(w) == worker[w].pc \in {"process", "failed", "sleep"}
HeldBy(j) == {w \in Workers : Holding(w) /\ worker[w].job = j}

\* Completed, or Failed with the retries exhausted
Terminal(j) ==
    \/ job[j].status = "Completed"
    \/ job[j].status = "Failed" /\ job[j].retry_count >= MaxRetries

StatusChanges ==
    {<<"Queued", "Processing">>, <<"Processing", "Completed">>,
     <<"Processing", "Failed">>, <<"Failed", "Retrying">>,
     <<"Retrying", "Processing">>}

\* C16: every change of the status of a job is one of the five changes of
\* the state machine; a job becomes Retrying only with retry_count < 3;
\* retry_count never decreases; a job that is Completed, or Failed with
\* its retries exhausted, is not in the channel, is not received again and
\* does not change any more.
C16_StateMachine ==
    [][\A j \in Jobs :
          /\ (job[j].status # "none" /\ job'[j].status # job[j].status)
                => <<job[j].status, job'[j].status>> \in StatusChanges
          /\ (job'[j].status = "Retrying" /\ job[j].status # "Retrying")
                => job'[j].retry_count < MaxRetries
          /\ job'[j].retry_count >= job[j].retry_count
          /\ Terminal(j) =>
                /\ job'[j] = job[j]
                /\ got'[j] = got[j]
                /\ ~InQueue(j)
                /\ \A i \in 1..Len(jobq') : jobq'[i] # j]_vars

\* one job is Completed, one was left Retrying after its first failure,
\* and a third one is being processed
C16_Witness ==
    \E j1, j2, j3 \in Jobs :
        /\ job[j1].status = "Completed"
        /\ job[j2].status = "Retrying" /\ job[j2].retry_count = 1
        /\ HeldBy(j2) = {}
        /\ job[j3].status = "Processing"

\* C17: under fair scheduling of the workers, every job that has been
\* queued eventually is Completed, or Failed with its retries exhausted.
C17_EveryJobTerminates ==
    \A j \in Jobs : (job[j].status = "Queued") ~> Terminal(j)

\* C18: the jobs in Processing status are at most max_workers, and each
\* of them is the one job of a worker that is processing it.
C18_BoundedProcessing ==
    /\ Cardinality({j \in Jobs : job[j].status = "Processing"}) <= MaxWorkers
    /\ \A j \in Jobs :
          job[j].status = "Processing" =>
              \E w \in Workers : worker[w].pc = "process" /\ worker[w].job = j

\* every worker is processing a job while another job waits in the channel
C18_Witness ==
    /\ \A w \in Workers : worker[w].pc = "process"
    /\ Cardinality({j \in Jobs : job[j].status = "Processing"}) = MaxWorkers
    /\ jobq # <<>>

AtRest(j) == job[j].status # "none" /\ ~InQueue(j) /\ HeldBy(j) = {}

\* C20: a job whose process_job fails twice and then succeeds, once the
\* workers are done with it, is Completed with retry_count = 2.
C20_ThirdAttemptCompletes ==
    \A j \in Jobs :
        (plan[j] = <<"err", "err", "ok">> /\ AtRest(j))
          => job[j].status = "Completed" /\ job[j].retry_count = 2

\* C21: a job whose process_job fails on every attempt, once the workers
\* are done with it, has been attempted 4 times and is Failed with
\* retry_count = 3.
C21_FailsAfterFourAttempts ==
    \A j \in Jobs :
        (plan[j] = <<"err", "err", "err", "err">> /\ AtRest(j))
          => /\ job[j].attempts = MaxRetries + 1
             /\ job[j].status = "Failed"
             /\ job[j].retry_count = MaxRetries

\* shutdown has dropped job_sender and every worker handle it awaits has
\* finished
ShutdownReturned ==
    closed /\ \A w \in Workers : worker[w].pc = "stopped"

\* C22: when shutdown has returned, no job is left in the channel and
\* every job that was queued is Completed, or Failed with its retries
\* exhausted.
C22_ShutdownDrains ==
    ShutdownReturned =>
        /\ jobq = <<>>
        /\ \A j \in Jobs : job[j].status # "none" => Terminal(j)

\* C23: a worker loop ends only when the channel is closed and empty, and
\* a worker whose job has failed goes back to recv: the failure of a job
\* never ends the loop.
C23_FailureStaysInWorker ==
    /\ [](\A w \in Workers :
            worker[w].pc = "stopped" => closed /\ jobq = <<>>)
    /\ [][\A w \in Workers :
            (worker[w].pc \in {"process", "failed", "sleep"}
               /\ worker'[w].pc # worker[w].pc)
              => worker'[w].pc \in {"failed", "sleep", "recv"}]_vars

\* every job has failed once and no worker has stopped: with more jobs
\* than workers, some worker has taken a job after the failure of another
C23_Witness ==
    /\ MaxJobs > MaxWorkers
    /\ \A j \in Jobs : job[j].retry_count = 1 /\ AtRest(j)
    /\ \A w \in Workers : worker[w].pc = "recv"

\* C24: a job with malformed parameters never is Retrying.
C24_InvalidNotRetried ==
    \A j \in Jobs : plan[j] = <<"invalid">> => job[j].status # "Retrying"

\* C30: a worker does not wait out the backoff delay of a failed job while
\* another job waits in the channel.
C30_BackoffFreesWorker ==
    \A w \in Workers : ~(worker[w].pc = "sleep" /\ jobq # <<>>)

\* C29: at most max_workers of the jobs queued by upload_image requests
\* are in Processing status at the same instant.
C29_OnePoolForAllUploads ==
    Cardinality({u \in Uploads : upload[u].status = "Processing"})
        <= MaxWorkers

\* the tokens bucket b of window w holds at the present time
TokensNow(b, w) == Refilled(b, AdminLimits[w], AdminLimits[w], clock)

\* C26: when admin_rate_limit_middleware has answered 429 and no time has
\* passed since the request arrived, every window holds the tokens it held
\* when the request arrived.
C26_DeniedTakesNoToken ==
    (adm.pc = "done" /\ adm.outcome = "429" /\ clock = adm.at) =>
        \A w \in Windows : TokensNow(bucket[w], w) = TokensNow(adm.before[w], w)

\* C25: whenever the time between two calls of a caller is long enough
\* for the refill rate to earn a token, one of the calls made after the
\* first of the two, up to the second one, is allowed.
C25_RefillByElapsedTime ==
    \A i \in 1..Len(hist), k \in 1..Len(hist) :
        (i < k /\ (hist[k][1] - hist[i][1]) * given.refill_rate
                      >= SecondsPerMinute)
          => \E n \in (i + 1)..k : hist[n][2]

\* C27: when quota_middleware makes its daily check while the store
\* answers, it denies with 429 exactly when the daily_uploads counter that
\* record_upload increments, and check_upload_quota compares, has reached
\* daily_limit.
C27_SameCounters ==
    [][(qmw.pc = "daily" /\ qmw'.pc # "daily" /\ redisUp) =>
          ((qmw'.outcome = "429")
             <=> GetUsageCounter(usage["daily_uploads"]) >= qlimits.daily_limit)
      ]_vars

\* C28: after reset_quota with quota_type "all" the six counters written
\* by record_upload and record_download read 0 and the minute, hour and
\* day buckets are absent.
C28_ResetAllClearsAll ==
    [][AdminReset("all") =>
          /\ \A k \in {"daily_uploads", "monthly_uploads", "daily_bytes",
                        "monthly_bytes", "daily_bandwidth",
                        "monthly_bandwidth"} :
                GetUsageCounter(usage'[k]) = 0
          /\ \A w \in Windows : ~bucket'[w].present]_vars

(* C31: a session stored with TTL t is gone once t seconds have passed     *)
(* since store_session, whatever get_session calls were made in between.   *)
C31_SessionExpires ==
    (shist.stored /\ ~shist.deleted /\ clock >= shist.at + shist.ttl)
      => ~session.present

(* C32: once delete_session has completed the session stays absent until  *)
(* the next store_session, also when a get_session was in progress.        *)
C32_DeletedStaysDeleted ==
    shist.deleted => ~session.present

\* both uploads found daily_limit - 1 uploads of today, were allowed and
\* their record_upload calls have returned Ok
BothPassedAndRecorded ==
    \A t \in Recorders :
        /\ uq[t].pc = "recorded"
        /\ uq[t].current_usage.daily_uploads = qlimits.daily_limit - 1
        /\ rec[t].pc = "ok"

(* C33: two concurrent uploads that both find the daily counter at         *)
(* daily_limit - 1 both pass the check and both record: the counter ends   *)
(* at daily_limit + 1, one above the limit.                                *)
C33_TransientOverQuota ==
    BothPassedAndRecorded =>
        GetUsageCounter(usage["daily_uploads"]) = qlimits.daily_limit + 1

C33_Witness ==
    /\ BothPassedAndRecorded
    /\ GetUsageCounter(usage["daily_uploads"]) = qlimits.daily_limit + 1
    /\ GetUsageCounter(usage["daily_uploads"]) > qlimits.daily_limit

(* C34: reset_rate_limit(key, w) deletes the bucket of w and nothing else: *)
(* the other buckets and the usage counters keep their values, and the     *)
(* next check_rate_limit on the deleted bucket, for a capacity of at least *)
(* 1, is allowed with capacity - 1 tokens remaining.                       *)
C34_ResetDeletesOneBucket ==
    [][/\ \A w \in Windows :
            ResetRateLimit(w) =>
               /\ ~bucket'[w].present
               /\ \A v \in Windows \ {w} : bucket'[v] = bucket[v]
               /\ usage' = usage
       /\ \A t \in Callers :
            (Invoke(t) /\ ~bucket["minute"].present /\ call[t].capacity >= 1) =>
               /\ call'[t].result.allowed
               /\ call'[t].result.remaining_tokens = AsU32(call[t].capacity - 1)
               /\ bucket'["minute"].tokens = call[t].capacity - 1]_vars

\* an empty bucket was reset and the next call on it was allowed, while the
\* other buckets and the counters are as they were
C34_Witness ==
    /\ given.tokens0 = 0
    /\ given.capacity >= 1
    /\ call[1].pc = "ok"
    /\ call[1].result.allowed
    /\ call[1].result.remaining_tokens = AsU32(given.capacity - 1)
    /\ bucket["hour"] = RaceBucket(0)
    /\ bucket["day"] = RaceBucket(0)
    /\ \A k \in Kinds : usage[k] = StartCounter(1)

\* the calls of zlog that were allowed with a now in [from, from + window)
AllowedWithin(from) ==
    {k \in 1..Len(zlog) :
        zlog[k][2] /\ from <= zlog[k][1] /\ zlog[k][1] < from + zgiven.window}

(* C35: among the calls of RedisService::check_rate_limit on one key, no   *)
(* more than limit are allowed with a now inside any interval of one       *)
(* window length, also when several calls carry the same now.              *)
C35_AtMostLimitPerWindow ==
    \A i \in 1..Len(zlog) : Cardinality(AllowedWithin(zlog[i][1])) <= zgiven.limit

(* C36: when rate_limit_middleware admits a request, the window whose      *)
(* limit and remaining tokens it reports (the window whose check answered  *)
(* allowed; the remaining tokens are those the check left in its bucket)   *)
(* is the most restrictive one: no window of the key has fewer tokens      *)
(* available at that time.                                                 *)
C36_MostRestrictiveReported ==
    [][\A w \in Windows :
          (MwCheckOk(w) /\ mw'.outcome = "forwarded") =>
              \A v \in Windows :
                  bucket'[w].tokens <=
                      Refilled(bucket'[v], RateChecks(limits)[v].capacity,
                               RateChecks(limits)[v].refill_rate, clock)]_vars

(* C37: in any interval of 3600 seconds public_rate_limit_middleware       *)
(* admits no more requests of one client than its hourly limit (counted    *)
(* here by the distinct seconds at which a request was admitted).          *)
C37_HourlyLimitHolds ==
    \A a \in pub.admitted :
        Cardinality({t \in pub.admitted :
                        a <= t /\ t < a + SecondsPerMinute * MinutesPerHour})
          <= PublicLimits.hour

\* the output locations of the first job of the image
FirstPaths ==
    LET first == [id |-> 1, image_id |-> pgiven.image_id,
                  output_dir |-> <<"processed", pgiven.image_id>>]
    IN  {Outputs(first, pgiven)[k].path : k \in 1..Len(Outputs(first, pgiven))}

(* C38: every run of process_job for the image returns the list of variant *)
(* URLs the first run returned, writes only to the output paths of the     *)
(* first run, and leaves one file per path: a later run replaces the file  *)
(* an earlier run wrote.                                                   *)
C38_RerunSameOutputs ==
    /\ \A i \in 1..Len(preturned) : preturned[i] = preturned[1]
    /\ \A f \in pfiles : f.path \in FirstPaths
    /\ \A f \in pfiles, g \in pfiles : f.path = g.path => f = g
    /\ prun.pc = "ok" => {f.path : f \in pfiles} = FirstPaths

\* a run failed half way, a later job of the image ran to the end twice,
\* and the files are those of the last runs
C38_Witness ==
    /\ Len(preturned) = 2
    /\ prun.run = 3
    /\ prun.pc = "ok"
    /\ pjob.id = 2
    /\ \E f \in pfiles : f.run = 3

\* x comes before y in seq
Earlier(seq, x, y) ==
    \E i \in 1..Len(seq), n \in 1..Len(seq) : i < n /\ seq[i] = x /\ seq[n] = y

(* C39: after a cache_transformed_image call the index transform:lru holds *)
(* at most max_entries members, and every member the call removed was     *)
(* last set or read before every member it kept.                           *)
C39_LruEviction ==
    [][\A k \in CacheKeys, ttl \in CacheTtls :
          CacheTransformedImage(k, ttl) =>
             /\ Cardinality(Members(lru')) <= MaxEntries
             /\ \A e \in (Members(lru) \cup {k}) \ Members(lru') :
                   \A r \in Members(lru') : Earlier(Touch(recency, k), e, r)]_vars

====
